---------------------------- MODULE Spec2Model ----------------------------
(***************************************************************************)
(* A model of the conversational agent orchestrator: the session Memory    *)
(* (module/memory.py), the orchestrator ConversationalAgent (agent.py),    *)
(* the tool wrappers that talk to the child process over its pipes         *)
(* (module/mcp_tool_wrappers.py) and the child itself (mcp-server.py).     *)
(*                                                                         *)
(* Texts are sequences of string pieces: text typed by the user is a       *)
(* sequence of one-character pieces, so that strip() and lower() act on    *)
(* it; a fixed message is one opaque piece; an f-string is the             *)
(* concatenation of its pieces.  A Python dict is a function whose DOMAIN  *)
(* is the set of keys present.                                             *)
(***************************************************************************)
EXTENDS Integers, Sequences, FiniteSets, TLC

VARIABLES
    memory,               \* agent.memory: the Memory object
    is_session_active,    \* agent.is_session_active
    mcp_server_process,   \* agent.mcp_server_process: a pid, or NoProcess
    tool_mcp_process,     \* BaseMCPToolWrapper.mcp_process of the registered tools
    procs,                \* the child processes ever spawned: pid -> process
    frames,               \* one frame per process_user_query invocation slot
    calls,          \* number of calls of the agent's methods so far
    llm_initialized,      \* agent.decision.llm is not None
    last,                 \* the last completed synchronous API call and its result
    sessions,             \* chat_agent/api_server.py: the shelf session_id -> session_data
    tasks                 \* the background tasks run_agent_in_background, with their handlers

vars == <<memory, is_session_active, mcp_server_process, tool_mcp_process,
          procs, frames, calls, llm_initialized, last, sessions, tasks>>

-----------------------------------------------------------------------------
(* Python values *)

\* None, as a text no piece of which is a text piece of the program
None == <<"<None>">>

\* Python truthiness of an optional text: neither None nor ""
Truthy(x) == x # None /\ x # <<>>

\* str.lower(), piece by piece: the upper-case letters the inputs use
Lower(t) ==
    LET LowerChar(c) ==
            CASE c = "Q" -> "q"
              [] c = "R" -> "r"
              [] c = "B" -> "b"
              [] c = "Y" -> "y"
              [] c = "E" -> "e"
              [] OTHER -> c
    IN  [i \in 1..Len(t) |-> LowerChar(t[i])]

\* str.strip(): the whitespace pieces at both ends are removed
Strip(t) ==
    LET Whitespace == {" ", "\t", "\n"}
        RECURSIVE LStrip(_)
        LStrip(u) ==
            IF u # <<>> /\ Head(u) \in Whitespace THEN LStrip(Tail(u)) ELSE u
        RECURSIVE RStrip(_)
        RStrip(u) ==
            IF u # <<>> /\ u[Len(u)] \in Whitespace
            THEN RStrip(SubSeq(u, 1, Len(u) - 1))
            ELSE u
    IN  RStrip(LStrip(t))

\* user_query.strip().lower()
Normalize(t) == Lower(Strip(t))

\* dict.get(key, default)
Get(d, k, default) == IF k \in DOMAIN d THEN d[k] ELSE default

\* d[k] = v on a dict
Put(d, k, v) == [x \in DOMAIN d \cup {k} |-> IF x = k THEN v ELSE d[x]]

\* d.update(e)
Update(d, e) == [x \in DOMAIN d \cup DOMAIN e |-> IF x \in DOMAIN e THEN e[x] ELSE d[x]]

EmptyDict == [x \in {} |-> None]

\* Python truthiness of a dict: it has a key
TruthyDict(d) == DOMAIN d # {}

-----------------------------------------------------------------------------
(* Memory (module/memory.py), as operators from a Memory to a Memory *)

\* Memory.__init__
NewMemory ==
    [session_id           |-> <<"uuid4">>,
     conversation_history |-> <<>>,
     facts                |-> EmptyDict,
     schemes_data         |-> EmptyDict,
     current_scheme_id    |-> None]

\* the dict add_conversation_turn builds
Turn(role, content, tool_name, tool_input, tool_output, final_answer) ==
    LET base == [role |-> role, content |-> content]
        withTool ==
            IF Truthy(tool_name)
            THEN Update(base, [tool_name   |-> tool_name,
                               tool_input  |-> IF tool_input # None THEN tool_input ELSE EmptyDict,
                               tool_output |-> tool_output])
            ELSE base
    IN  IF Truthy(final_answer)
        THEN Update(withTool, [final_answer |-> final_answer])
        ELSE withTool

\* add_conversation_turn on a log that keeps its three most recent turns
add_conversation_turn_Capped(m, role, content, tool_name, tool_input, tool_output, final_answer) ==
    LET h == Append(m.conversation_history,
                    Turn(role, content, tool_name, tool_input, tool_output, final_answer))
    IN  [m EXCEPT !.conversation_history =
                      IF Len(h) > 3 THEN SubSeq(h, Len(h) - 2, Len(h)) ELSE h]

add_conversation_turn(m, role, content, tool_name, tool_input, tool_output, final_answer) ==
    [m EXCEPT !.conversation_history =
        Append(@, Turn(role, content, tool_name, tool_input, tool_output, final_answer))]

\* store_fact that keeps the value of a key already present
store_fact_KeepsFirst(m, key, value) ==
    IF key \in DOMAIN m.facts THEN m ELSE [m EXCEPT !.facts = Put(@, key, value)]

store_fact(m, key, value) ==
    [m EXCEPT !.facts = Put(@, key, value)]

retrieve_fact(m, key) == Get(m.facts, key, None)

\* store_scheme_data that always replaces the record
store_scheme_data_Replaces(m, scheme_id, data, overwrite) ==
    [m EXCEPT !.schemes_data = Put(@, scheme_id, data)]

store_scheme_data(m, scheme_id, data, overwrite) ==
    LET old == IF scheme_id \notin DOMAIN m.schemes_data \/ overwrite
               THEN EmptyDict
               ELSE m.schemes_data[scheme_id]
    IN  [m EXCEPT !.schemes_data = Put(@, scheme_id, Update(old, data))]

retrieve_scheme_data(m, scheme_id) == Get(m.schemes_data, scheme_id, None)

\* the existence test of set_current_scheme
\* the existence test without the facts
SchemeExists_RecordOnly(m, scheme_id) == scheme_id \in DOMAIN m.schemes_data

SchemeExists(m, scheme_id) ==
    \/ scheme_id \in DOMAIN m.schemes_data
    \/ retrieve_fact(m, scheme_id \o <<"_details">>) # None
    \/ retrieve_fact(m, scheme_id \o <<"_summary">>) # None

\* set_current_scheme that writes the fact even when the scheme is unknown
set_current_scheme_MirrorsAnyway(m, scheme_id) ==
    store_fact(IF SchemeExists(m, scheme_id)
               THEN [m EXCEPT !.current_scheme_id = scheme_id]
               ELSE m,
               <<"current_scheme_id">>, scheme_id)

\* the Memory after set_current_scheme(scheme_id)
set_current_scheme(m, scheme_id) ==
    IF SchemeExists(m, scheme_id)
    THEN store_fact([m EXCEPT !.current_scheme_id = scheme_id],
                    <<"current_scheme_id">>, scheme_id)
    ELSE m

get_current_scheme_id(m) ==
    IF Truthy(m.current_scheme_id)
    THEN m.current_scheme_id
    ELSE retrieve_fact(m, <<"current_scheme_id">>)

\* update_current_scheme_data that replaces the record of the current scheme
update_current_scheme_data_Overwrites(m, data_to_update) ==
    IF Truthy(get_current_scheme_id(m))
    THEN store_scheme_data(m, get_current_scheme_id(m), data_to_update, TRUE)
    ELSE m

\* the Memory after update_current_scheme_data(data_to_update)
update_current_scheme_data(m, data_to_update) ==
    IF Truthy(get_current_scheme_id(m))
    THEN store_scheme_data(m, get_current_scheme_id(m), data_to_update, FALSE)
    ELSE m

\* ForwardScan without the break at an intervening user turn
RECURSIVE ForwardScan_NoBreak(_, _)
ForwardScan_NoBreak(h, j) ==
    IF j > Len(h) THEN None
    ELSE IF h[j].role = "agent" /\ "final_answer" \in DOMAIN h[j]
         THEN h[j].final_answer
    ELSE ForwardScan_NoBreak(h, j + 1)

\* the forward scan of check_for_repeated_question, from index j on: the
\* final_answer of the next agent turn that has one, None at a user turn or
\* at the end of the log
RECURSIVE ForwardScan(_, _)
ForwardScan(h, j) ==
    IF j > Len(h) THEN None
    ELSE IF h[j].role = "agent" /\ "final_answer" \in DOMAIN h[j]
         THEN h[j].final_answer
    ELSE IF h[j].role = "user" THEN None
    ELSE ForwardScan(h, j + 1)

\* BackwardScan whose lookback counter counts every turn, not only user turns
RECURSIVE BackwardScan_CountsAllTurns(_, _, _, _, _)
BackwardScan_CountsAllTurns(h, normalized_query, history_lookback, i, user_turns_checked) ==
    IF i < 1 THEN None
    ELSE LET checked == user_turns_checked + 1
         IN  IF checked > history_lookback THEN None
             ELSE IF h[i].role = "user"
                     /\ Normalize(Get(h[i], "content", <<>>)) = normalized_query
                     /\ ForwardScan(h, i + 1) # None
                  THEN ForwardScan(h, i + 1)
             ELSE BackwardScan_CountsAllTurns(h, normalized_query, history_lookback, i - 1, checked)

\* the backward loop of check_for_repeated_question at index i, with
\* user_turns_checked user turns counted so far
RECURSIVE BackwardScan(_, _, _, _, _)
BackwardScan(h, normalized_query, history_lookback, i, user_turns_checked) ==
    IF i < 1 THEN None
    ELSE IF h[i].role = "user"
         THEN LET checked == user_turns_checked + 1
              IN  IF checked > history_lookback THEN None
                  ELSE IF Normalize(Get(h[i], "content", <<>>)) = normalized_query
                          /\ ForwardScan(h, i + 1) # None
                       THEN ForwardScan(h, i + 1)
                  ELSE BackwardScan(h, normalized_query, history_lookback, i - 1, checked)
    ELSE BackwardScan(h, normalized_query, history_lookback, i - 1, user_turns_checked)

check_for_repeated_question(m, user_query, history_lookback) ==
    BackwardScan(m.conversation_history, Normalize(user_query), history_lookback,
                 Len(m.conversation_history), 0)

\* str(value) of a text or of None
Str(value) == IF value = None THEN <<"None">> ELSE value

\* len(text): the characters of all the pieces
RECURSIVE CharLen(_)
CharLen(text) ==
    IF text = <<>> THEN 0 ELSE Len(Head(text)) + CharLen(Tail(text))

\* Memory.get_current_scheme_data, with no record as the empty dict
get_current_scheme_data(m) ==
    Get(m.schemes_data, get_current_scheme_id(m), EmptyDict)

\* the orders in which the keys of d can have been inserted
KeyOrders(d) ==
    { order \in [1..Cardinality(DOMAIN d) -> DOMAIN d] :
          \A i, j \in DOMAIN order : order[i] = order[j] => i = j }

\* _add_to_context that appends whatever the length
add_to_context_NoLimit(context, text, max_context_str_length) ==
    IF text = <<>> THEN context
    ELSE [context_parts  |-> Append(context.context_parts, text),
          current_length |-> context.current_length + CharLen(text)]

\* _add_to_context: context is context_parts with current_length
add_to_context(context, text, max_context_str_length) ==
    IF text # <<>> /\ context.current_length + CharLen(text) < max_context_str_length
    THEN [context_parts  |-> Append(context.context_parts, text),
          current_length |-> context.current_length + CharLen(text)]
    ELSE context

\* the lines of the scheme record, in the order of its keys
RECURSIVE SchemeLines(_, _)
SchemeLines(scheme_data, keys) ==
    IF keys = <<>> THEN <<>>
    ELSE <<"  - ">> \o Head(keys) \o <<": ">> \o Str(scheme_data[Head(keys)]) \o <<"\n">>
            \o SchemeLines(scheme_data, Tail(keys))


facts_header == <<"Key Information from Memory (Facts):\n">>

\* a piece of the lower-cased key holds one of the words scheme, building,
\* project, material, current
PriorityKey(key) ==
    \E i \in 1..Len(key) :
        Lower(key)[i] \in {"scheme_1", "scheme_2", "scheme_3", "current_scheme_id",
                           "generated_scheme_ids", "building_type", "project", "material"}

\* the loop over sorted_fact_keys: temp_facts_str when it ends or breaks
RECURSIVE FactsLoop(_, _, _, _, _)
FactsLoop(m, keys, temp_facts_str, current_length, max_context_str_length) ==
    IF keys = <<>> THEN temp_facts_str
    ELSE LET fact_line ==
                 <<"- ">> \o Head(keys) \o <<": ">> \o Str(m.facts[Head(keys)]) \o <<"\n">>
             projected_len ==
                 (IF temp_facts_str = <<>> THEN CharLen(facts_header) ELSE 0)
                     + CharLen(temp_facts_str) + CharLen(fact_line)
         IN  IF 4 * (current_length + projected_len) < 3 * max_context_str_length
             THEN FactsLoop(m, Tail(keys), temp_facts_str \o fact_line,
                            current_length, max_context_str_length)
             ELSE temp_facts_str

\* 2. the text offered for the facts; fact_keys is the order in which the
\* keys of facts were inserted
FactsBlock(m, fact_keys, current_length, max_context_str_length) ==
    LET \* priority_keys + other_keys
        sorted_fact_keys ==
            SelectSeq(fact_keys, PriorityKey) \o SelectSeq(fact_keys, LAMBDA k : ~PriorityKey(k))
        temp_facts_str == FactsLoop(m, sorted_fact_keys, <<>>,
                                    current_length, max_context_str_length)
    IN  IF temp_facts_str = <<>> THEN <<>>
        ELSE facts_header \o temp_facts_str \o <<"\n">>

history_header == <<"Recent Conversation Snippets (User/Agent):\n">>

max_history_turns == 5

\* the loop over reversed(conversation_history) from turn i down:
\* temp_history_str when it ends or breaks
RECURSIVE HistoryLoop(_, _, _, _, _, _)
HistoryLoop(history, i, temp_history_str, turns_to_include, current_length, max_context_str_length) ==
    IF i = 0 \/ turns_to_include >= max_history_turns * 2 THEN temp_history_str
    ELSE LET turn == history[i]
             turn_prefix == IF turn.role = "user" THEN <<"User: ">> ELSE <<"Agent: ">>
             content ==
                 IF turn.role = "agent" /\ "final_answer" \in DOMAIN turn
                 THEN turn.final_answer
                 ELSE IF turn.role = "agent" /\ "tool_name" \in DOMAIN turn
                 THEN turn.content \o <<" (Used tool: ">> \o turn.tool_name \o <<")">>
                 ELSE turn.content
             snippet == turn_prefix \o Str(content) \o <<"\n">>
             projected_len ==
                 (IF temp_history_str = <<>> THEN CharLen(history_header) ELSE 0)
                     + CharLen(snippet) + CharLen(temp_history_str)
         IN  IF current_length + projected_len < max_context_str_length
             THEN HistoryLoop(history, i - 1, snippet \o temp_history_str,
                              turns_to_include + 1, current_length, max_context_str_length)
             ELSE temp_history_str

\* 3. the text offered for the recent turns
HistoryBlock(m, current_length, max_context_str_length) ==
    LET temp_history_str == HistoryLoop(m.conversation_history, Len(m.conversation_history),
                                        <<>>, 0, current_length, max_context_str_length)
    IN  IF temp_history_str = <<>> THEN <<>>
        ELSE history_header \o temp_history_str

\* "".join(context_parts)
RECURSIVE Join(_)
Join(context_parts) ==
    IF context_parts = <<>> THEN <<>> ELSE Head(context_parts) \o Join(Tail(context_parts))

\* Memory.get_relevant_context_for_decision: the blocks offered, the parts
\* kept and the string returned
get_relevant_context_for_decision(m, max_context_str_length, fact_keys, scheme_keys) ==
    LET empty        == [context_parts |-> <<>>, current_length |-> 0]
        \* 1. the text offered for the current scheme; scheme_keys is the
        \* order of the record's keys
        current_scheme_id == get_current_scheme_id(m)
        scheme_data  == get_current_scheme_data(m)
        scheme_block ==
            IF ~Truthy(current_scheme_id) THEN <<>>
            ELSE IF TruthyDict(scheme_data)
            THEN <<"Current Active Scheme (ID: ">> \o current_scheme_id \o <<"):\n">>
                    \o SchemeLines(scheme_data, scheme_keys)
                    \o <<"\n">>
            ELSE <<"Current Active Scheme ID: ">> \o current_scheme_id
                    \o <<" (Details may be in facts or forthcoming).\n\n">>
        c1           == add_to_context(empty, scheme_block, max_context_str_length)
        facts_block  == FactsBlock(m, fact_keys, c1.current_length, max_context_str_length)
        c2           == add_to_context(c1, facts_block, max_context_str_length)
        history_block == HistoryBlock(m, c2.current_length, max_context_str_length)
        c3           == add_to_context(c2, history_block, max_context_str_length)
    IN  [scheme_block  |-> scheme_block,
         facts_block   |-> facts_block,
         history_block |-> history_block,
         context_parts |-> c3.context_parts,
         full_context  |-> Join(c3.context_parts)]

\* clear that also takes a new session id
clear_NewSession(m) ==
    [NewMemory EXCEPT !.session_id = <<"uuid4", "'">>]

\* Memory.clear
clear(m) ==
    [m EXCEPT !.conversation_history = <<>>,
              !.facts = EmptyDict,
              !.schemes_data = EmptyDict,
              !.current_scheme_id = None]


-----------------------------------------------------------------------------
(* Fixed texts of agent.py, decision.py and mcp_tool_wrappers.py *)

initial_greeting == <<"What do you want to do today?">>

farewell_message == <<"That is all, thank you.">>

session_ended_content == <<"Session ended.">>

\* the sentinel tool name
final_answer_tool == <<"final_answer">>

\* ["that is all, thank you.", "bye", "exit", "quit"], character by character
TerminationPhrases ==
    { <<"t","h","a","t"," ","i","s"," ","a","l","l",","," ","t","h","a","n","k"," ","y","o","u",".">>,
      <<"b","y","e">>,
      <<"e","x","i","t">>,
      <<"q","u","i","t">> }

\* the tools main.py registers; all are BaseMCPToolWrapper instances
RegisteredTools == {<<"add">>, <<"ai_form_schemer">>, <<"material_property_fetcher">>}

\* the answer for a tool that is not in tools_execution_map
ToolNotAvailableAnswer(tool_name) ==
    <<"I thought about using a tool called '">> \o tool_name
        \o <<"', but I don't seem to have it available right now.">>

\* the fallback answer when the re-evaluation gives no final answer
ToolUsedAnswer(tool_name, actual_tool_output) ==
    <<"The tool '">> \o tool_name \o <<"' was used. Result: ">> \o actual_tool_output

\* str(tool_execution_result) of a result dict
ResultStr(result) ==
    <<"{'status': '">> \o result.status \o <<"', ">>
        \o (IF "tool_name" \in DOMAIN result
            THEN <<"'tool_name': '">> \o result.tool_name \o <<"', ">>
            ELSE <<>>)
        \o (IF "output" \in DOMAIN result THEN <<"'output': ">> \o result.output
            ELSE <<"'message': ">> \o result.message)
        \o <<"}">>

\* str() of the integers the child computes
IntStr(n) ==
    CASE n = 0 -> "0" [] n = 1 -> "1" [] n = 2 -> "2" [] n = 3 -> "3" [] n = 4 -> "4"
      [] n = 5 -> "5" [] n = 6 -> "6" [] n = 7 -> "7" [] n = 8 -> "8" [] OTHER -> "int"

-----------------------------------------------------------------------------
(* Bounds of the model *)

\* longest turn log the Memory-only specifications build
MaxLogLen == 5

\* largest history_lookback passed to check_for_repeated_question
MaxLookback == 3

\* calls of the agent's methods in one behaviour
MaxCalls == 3

\* child processes spawned in one behaviour
MaxProcs == 2

\* turns logged in a behaviour of the Memory on its own
MaxMemTurns == 1

\* longest memory_actions list of a plan
MaxActions == 3

\* turns in the log of ContextSpec
MaxCtxTurns == 2

\* largest max_context_str_length asked for in ContextSpec
MaxContextLen == 230

\* lines written to the child in ChildSpec
MaxLines == 3

\* process_user_query calls in TurnsSpec
MaxTurns == 6

\* HttpSpec: sessions created, background tasks started, tool steps of one run
MaxSessions == 2
MaxTasks == 2
MaxToolSteps == 1

-----------------------------------------------------------------------------
(* State outside the Memory, at rest *)

NoProcess == 0

\* "id": None in a response line; no request written
NoRequestId == 0

\* the event of a step that completes no API call
NoCall == [op |-> "none"]

\* the slots in which process_user_query coroutines of one agent run
Callers == {1, 2}

\* history_lookback: int = 5
DefaultLookback == 5

\* a slot with no invocation in it
IdleFrame ==
    [pc                  |-> "idle",
     user_query          |-> None,
     implicit_start      |-> FALSE,  \* the branch of agent.py:127 was taken
     llm_thought         |-> None,
     llm_tool_name       |-> None,
     llm_tool_input      |-> None,
     llm_speak_output    |-> None,
     tool_output_content |-> None,
     actual_tool_output  |-> None,
     final_thought       |-> None,
     final_tool_name     |-> None,
     final_speak_output  |-> None,
     request_id          |-> NoRequestId,
     decision_calls      |-> 0,
     tool_calls          |-> 0,
     path                |-> "none",
     ret                 |-> None]

\* the variables a Memory-only specification never touches
RestIdle ==
    /\ is_session_active = FALSE
    /\ mcp_server_process = NoProcess
    /\ tool_mcp_process = NoProcess
    /\ procs = <<>>
    /\ frames = [c \in Callers |-> IdleFrame]
    /\ calls = 0
    /\ llm_initialized = TRUE
    /\ sessions = EmptyDict
    /\ tasks = <<>>

RestUnchanged ==
    UNCHANGED <<is_session_active, mcp_server_process, tool_mcp_process,
                procs, frames, calls, llm_initialized, sessions, tasks>>

-----------------------------------------------------------------------------
(* RepeatSpec: check_for_repeated_question on every turn log that           *)
(* add_conversation_turn can build, for every query and lookback            *)

RepeatInit ==
    /\ memory = NewMemory
    /\ last = NoCall
    /\ RestIdle

\* memory.add_conversation_turn(role="user", content=content)
RepeatAddUserTurn ==
    /\ Len(memory.conversation_history) < MaxLogLen
    /\ \E content \in {<<"q">>, <<" ", "Q">>, <<"r">>} :
          memory' = add_conversation_turn(memory, "user", content, None, None, None, None)
    /\ last' = NoCall
    /\ RestUnchanged

\* memory.add_conversation_turn(role="agent", content=..., final_answer=final_answer)
RepeatAddAgentTurn ==
    /\ Len(memory.conversation_history) < MaxLogLen
    /\ \E final_answer \in {None, <<"A">>, <<"B">>} :
          memory' = add_conversation_turn(memory, "agent", <<"T">>, None, None, None, final_answer)
    /\ last' = NoCall
    /\ RestUnchanged

\* memory.check_for_repeated_question(user_query, history_lookback)
RepeatCheck ==
    /\ \E user_query \in {<<"q">>, <<"Q", "\n">>}, history_lookback \in 0..MaxLookback :
          last' = [op               |-> "check_for_repeated_question",
                   user_query       |-> user_query,
                   history_lookback |-> history_lookback,
                   result           |-> check_for_repeated_question(memory, user_query, history_lookback)]
    /\ UNCHANGED memory
    /\ RestUnchanged

RepeatNext == RepeatAddUserTurn \/ RepeatAddAgentTurn \/ RepeatCheck

RepeatSpec == RepeatInit /\ [][RepeatNext]_vars

-----------------------------------------------------------------------------
(* What check_for_repeated_question is to return, stated on the log *)

UserTurns(h) == {i \in 1..Len(h) : h[i].role = "user"}

\* i is the Rank-th most recent user turn
Rank(h, i) == Cardinality({j \in UserTurns(h) : j >= i})

HasFinalAnswer(h, j) == h[j].role = "agent" /\ "final_answer" \in DOMAIN h[j]

\* the agent turns with a final_answer that follow user turn i before any other user turn
AnswersTo(h, i) ==
    {j \in (i + 1)..Len(h) :
        /\ HasFinalAnswer(h, j)
        /\ \A k \in (i + 1)..(j - 1) : h[k].role # "user"}

SameQuestion(h, i, q) == Normalize(h[i].content) = Normalize(q)

Qualifying(h, q, L) ==
    {i \in UserTurns(h) : Rank(h, i) <= L /\ SameQuestion(h, i, q) /\ AnswersTo(h, i) # {}}

SetMax(S) == CHOOSE x \in S : \A y \in S : y <= x

SetMin(S) == CHOOSE x \in S : \A y \in S : x <= y

ExpectedRepeat(h, q, L) ==
    IF Qualifying(h, q, L) = {}
    THEN None
    ELSE h[SetMin(AnswersTo(h, SetMax(Qualifying(h, q, L))))].final_answer

RepeatChecked == last.op = "check_for_repeated_question"

\* C6: check_for_repeated_question returns the final_answer that follows the
\* most recent qualifying user turn (same normalized text, within the
\* lookback, answered before the next user turn), and None when no user turn
\* qualifies
C6_RepeatedQuestionResult ==
    RepeatChecked =>
        last.result = ExpectedRepeat(memory.conversation_history, last.user_query,
                                     last.history_lookback)

\* C6 witness: the most recent matching user turn has no answer before the
\* next user turn, and the answer of an older matching one is returned
C6_Witness ==
    /\ RepeatChecked
    /\ last.result # None
    /\ LET h == memory.conversation_history
           matching == {i \in UserTurns(h) : SameQuestion(h, i, last.user_query)}
       IN  /\ Cardinality(matching) >= 2
           /\ AnswersTo(h, SetMax(matching)) = {}
           /\ \E i \in matching : h[i].content # last.user_query

\* C7: only the history_lookback most recent user turns are considered: with
\* lookback 0 the result is None, a result comes from a matching user turn of
\* rank at most the lookback, and an answered matching user turn within the
\* lookback always gives a result
C7_LookbackBudget ==
    RepeatChecked =>
        LET h == memory.conversation_history
            q == last.user_query
            L == last.history_lookback
            answered == {i \in UserTurns(h) : SameQuestion(h, i, q) /\ AnswersTo(h, i) # {}}
        IN  /\ L = 0 => last.result = None
            /\ (\A i \in answered : Rank(h, i) > L) => last.result = None
            /\ (\E i \in answered : Rank(h, i) <= L) => last.result # None

\* C7 witness: an answered matching user turn exists just outside the
\* lookback, agent turns lie in between, and the result is None
C7_Witness ==
    /\ RepeatChecked
    /\ last.result = None
    /\ last.history_lookback >= 1
    /\ LET h == memory.conversation_history
       IN  \E i \in UserTurns(h) :
              /\ SameQuestion(h, i, last.user_query)
              /\ AnswersTo(h, i) # {}
              /\ Rank(h, i) = last.history_lookback + 1

-----------------------------------------------------------------------------
(* MemSpec: the Memory on its own, under every sequence of its operations *)

MemFactKeys ==
    {<<"scheme_1", "_summary">>, <<"scheme_2", "_details">>, <<"current_scheme_id">>}

MemSchemeIds == {<<"scheme_1">>, <<"scheme_2">>}

NameX == Put(EmptyDict, <<"name">>, <<"X">>)

MemSchemeData == {NameX, Put(Put(EmptyDict, <<"name">>, <<"Y">>), <<"cost">>, <<"C">>)}

MemInit ==
    /\ \E session_id \in {NewMemory.session_id, <<"sid">>} :  \* generated, or given
          memory = [NewMemory EXCEPT !.session_id = session_id]
    /\ last = NoCall
    /\ RestIdle

MemAddTurn ==
    /\ Len(memory.conversation_history) < MaxMemTurns
    /\ memory' = add_conversation_turn(memory, "user", <<"q">>, None, None, None, None)
    /\ last' = [op |-> "add_conversation_turn"]
    /\ RestUnchanged

MemStoreFact ==
    /\ \E key \in MemFactKeys, value \in {<<"V">>, None} :
          /\ memory' = store_fact(memory, key, value)
          /\ last' = [op |-> "store_fact", key |-> key, value |-> value]
    /\ RestUnchanged

MemStoreSchemeData ==
    /\ \E scheme_id \in MemSchemeIds, data \in MemSchemeData, overwrite \in BOOLEAN :
          /\ memory' = store_scheme_data(memory, scheme_id, data, overwrite)
          /\ last' = [op |-> "store_scheme_data", scheme_id |-> scheme_id, data |-> data,
                      overwrite |-> overwrite]
    /\ RestUnchanged

MemSetCurrentScheme ==
    /\ \E scheme_id \in MemSchemeIds :
          /\ memory' = set_current_scheme(memory, scheme_id)
          /\ last' = [op |-> "set_current_scheme", scheme_id |-> scheme_id,
                      result |-> SchemeExists(memory, scheme_id)]
    /\ RestUnchanged

MemUpdateCurrentSchemeData ==
    /\ \E data \in MemSchemeData :
          /\ memory' = update_current_scheme_data(memory, data)
          /\ last' = [op |-> "update_current_scheme_data", data |-> data,
                      result |-> Truthy(get_current_scheme_id(memory))]
    /\ RestUnchanged

MemClear ==
    /\ memory' = clear(memory)
    /\ last' = [op |-> "clear", before |-> memory]
    /\ RestUnchanged

MemNext ==
    \/ MemAddTurn
    \/ MemStoreFact
    \/ MemStoreSchemeData
    \/ MemSetCurrentScheme
    \/ MemUpdateCurrentSchemeData
    \/ MemClear

MemSpec == MemInit /\ [][MemNext]_vars

\* The effect the claim C37 gives update_current_scheme_data(d), for a given
\* reading of "a current scheme id is resolvable": unresolvable, the call
\* returns false and the Memory is as before; resolvable to id, it returns
\* true, the record of id is the union of the old record (empty when there
\* was none) and d with d winning, and nothing else of the Memory changes.
UpdateEffect(resolvable) ==
    LET d == last'.data
        id == IF Truthy(memory.current_scheme_id)
              THEN memory.current_scheme_id
              ELSE memory.facts[<<"current_scheme_id">>]
        old == IF id \in DOMAIN memory.schemes_data
               THEN memory.schemes_data[id]
               ELSE EmptyDict
        new == memory'.schemes_data[id]
    IN  IF ~resolvable
        THEN ~last'.result /\ memory' = memory
        ELSE /\ last'.result
             /\ DOMAIN memory'.schemes_data = DOMAIN memory.schemes_data \cup {id}
             /\ DOMAIN new = DOMAIN old \cup DOMAIN d
             /\ \A k \in DOMAIN new : new[k] = IF k \in DOMAIN d THEN d[k] ELSE old[k]
             /\ \A other \in DOMAIN memory.schemes_data \ {id} :
                    memory'.schemes_data[other] = memory.schemes_data[other]
             /\ memory'.current_scheme_id = memory.current_scheme_id
             /\ memory'.facts = memory.facts
             /\ memory'.conversation_history = memory.conversation_history
             /\ memory'.session_id = memory.session_id

\* C37 as stated: update_current_scheme_data(d) returns false and changes
\* nothing exactly when the pointer is unset and there is no
\* 'current_scheme_id' fact; otherwise it returns true and merges d into the
\* record of the current id, leaving everything else unchanged.
C37_AsStated ==
    [][last'.op = "update_current_scheme_data" =>
          UpdateEffect(\/ memory.current_scheme_id # None
                       \/ <<"current_scheme_id">> \in DOMAIN memory.facts)]_vars

\* C37, amended: update_current_scheme_data(d) returns false and changes
\* nothing when neither the pointer nor the 'current_scheme_id' fact holds a
\* non-empty id (a fact stored with no value resolves to nothing); otherwise
\* it returns true and merges d into the record of the current id (union, d
\* winning), creating the record when missing, and leaves the pointer, the
\* facts, the turn log and every other scheme record unchanged.
C37_UpdateCurrentSchemeData ==
    [][last'.op = "update_current_scheme_data" =>
          UpdateEffect(\/ Truthy(memory.current_scheme_id)
                       \/ /\ <<"current_scheme_id">> \in DOMAIN memory.facts
                          /\ Truthy(memory.facts[<<"current_scheme_id">>]))]_vars

\* an update has added a key to an existing record of the current scheme and
\* kept the key it did not name, with another scheme record beside it
C37_Witness ==
    /\ last.op = "update_current_scheme_data"
    /\ last.result
    /\ last.data = NameX
    /\ Truthy(memory.current_scheme_id)
    /\ memory.schemes_data[memory.current_scheme_id] =
           Put(Put(EmptyDict, <<"name">>, <<"X">>), <<"cost">>, <<"C">>)
    /\ Cardinality(DOMAIN memory.schemes_data) = 2

-----------------------------------------------------------------------------
(* The child process (mcp-server.py) and its pipes *)

\* json.dumps(obj) + "\n": a line holding one JSON object
Dumps(obj) == [json |-> obj]

\* what readline() returns at end of file
EofLine == [eof |-> TRUE]

\* a process just spawned by subprocess.Popen with stdin and stdout piped
NewProcess == [alive |-> TRUE, stdin |-> <<>>, stdout |-> <<>>]

\* the tool_input dict {"a": a, "b": b}
AddInput(a, b) == Put(Put(EmptyDict, <<"a">>, a), <<"b">>, b)

InvalidRequest == <<"{'code': -32600, 'message': str(e)}">>

\* a line that json.loads does not turn into a dict
RawLine(text) == [raw |-> text]

\* the response process_request writes for one request line
process_request(req_json) ==
    IF "json" \notin DOMAIN req_json
    THEN \* json.loads or req.get raises: the except branch answers with id None
         Dumps([error |-> InvalidRequest, id |-> NoRequestId])
    ELSE
    LET req == req_json.json
    IN  IF req.method = <<"add">>
        THEN IF DOMAIN req.params = {<<"a">>, <<"b">>}
             THEN Dumps([result |-> <<IntStr(req.params[<<"a">>] + req.params[<<"b">>])>>,
                         id     |-> req.id])
             ELSE \* add(**params) raises TypeError: the except branch answers with id None
                  Dumps([error |-> InvalidRequest, id |-> NoRequestId])
        ELSE Dumps([error |-> <<"{'code': -32601, 'message': 'Method not found'}">>,
                    id    |-> req.id])

-----------------------------------------------------------------------------
(* BaseMCPToolWrapper.execute (module/mcp_tool_wrappers.py) *)

\* the JSON-RPC request execute() writes
JsonRpcRequest(name, tool_input, request_id) ==
    Dumps([jsonrpc |-> "2.0", method |-> name, params |-> tool_input, id |-> request_id])

-----------------------------------------------------------------------------
(* ConversationalAgent (agent.py): the synchronous stretches of            *)
(* process_user_query, as operators giving the Memory and the frame they   *)
(* leave behind                                                            *)

\* start_session without memory.clear()
StartSessionMemory_NoClear(m) ==
    add_conversation_turn(m, "agent", initial_greeting, None, None, None, initial_greeting)

\* start_session on Memory m
StartSessionMemory(m) ==
    add_conversation_turn(clear(m), "agent", initial_greeting, None, None, None,
                          initial_greeting)

\* end_session logging its turn without the farewell as final_answer
EndSessionMemory_NoFarewell(m) ==
    add_conversation_turn(m, "agent", session_ended_content, None, None, None, None)

\* end_session on Memory m, in an active session
EndSessionMemory(m) ==
    add_conversation_turn(m, "agent", session_ended_content, None, None, None,
                          farewell_message)

\* end_session that closes the session whether or not one is active
end_session_AlwaysCloses(m, active) ==
    [memory |-> EndSessionMemory(m), active |-> FALSE, result |-> farewell_message]

\* end_session(): the Memory and flag it leaves and what it returns
end_session(m, active) ==
    IF ~active
    THEN [memory |-> m, active |-> active, result |-> <<"No active session to end.">>]
    ELSE [memory |-> EndSessionMemory(m), active |-> FALSE, result |-> farewell_message]

\* a JSON string where a JSON object is expected
JsonString(text) == [str |-> text]

\* the entry is a dict, so that mem_action.get exists
IsDict(mem_action) == "str" \notin DOMAIN mem_action

\* str(e) of the AttributeError of mem_action.get on a str
AttributeErrorText == <<"'str' object has no attribute 'get'">>

\* the loop over memory_actions reaches an entry that is not a dict
MemoryActionsRaise(memory_actions) ==
    \E i \in 1..Len(memory_actions) : ~IsDict(memory_actions[i])

\* one entry of the initial plan's memory_actions
ApplyMemoryAction(m, mem_action) ==
    LET action_type == Get(mem_action, "action", None)
    IN  IF action_type = <<"store_fact">>
        THEN store_fact(m, Get(mem_action, "key", None), Get(mem_action, "value", None))
        ELSE IF action_type = <<"set_current_scheme">>
        THEN IF Truthy(Get(mem_action, "scheme_id", None))
             THEN set_current_scheme(m, mem_action.scheme_id)
             ELSE m
        ELSE IF action_type = <<"update_current_scheme_data">>
        THEN IF "data" \in DOMAIN mem_action /\ TruthyDict(mem_action.data)
             THEN update_current_scheme_data(m, mem_action.data)
             ELSE m
        ELSE m

\* the loop taken from the last entry to the first
RECURSIVE ApplyMemoryActions_Reversed(_, _)
ApplyMemoryActions_Reversed(m, llm_memory_actions) ==
    IF llm_memory_actions = <<>> THEN m
    ELSE ApplyMemoryAction(ApplyMemoryActions_Reversed(m, Tail(llm_memory_actions)),
                           Head(llm_memory_actions))

\* the loop over the initial plan's memory_actions, as far as it gets: it
\* stops at an entry that is not a dict, where mem_action.get raises
RECURSIVE ApplyMemoryActions(_, _)
ApplyMemoryActions(m, llm_memory_actions) ==
    IF llm_memory_actions = <<>> \/ ~IsDict(Head(llm_memory_actions)) THEN m
    ELSE ApplyMemoryActions(ApplyMemoryAction(m, Head(llm_memory_actions)),
                            Tail(llm_memory_actions))

\* the re-evaluation loop handling every action type, as the initial loop does
ApplyFinalMemoryActions_AllTypes(m, final_memory_actions) ==
    ApplyMemoryActions(m, final_memory_actions)

RECURSIVE ApplyFinalMemoryActions(_, _)
ApplyFinalMemoryActions(m, final_memory_actions) ==
    IF final_memory_actions = <<>> \/ ~IsDict(Head(final_memory_actions)) THEN m
    ELSE LET \* one entry of the re-evaluation plan's memory_actions: store_fact only
             mem_action == Head(final_memory_actions)
             m1 == IF Get(mem_action, "action", None) = <<"store_fact">>
                   THEN store_fact(m, Get(mem_action, "key", None),
                                   Get(mem_action, "value", None))
                   ELSE m
         IN  ApplyFinalMemoryActions(m1, Tail(final_memory_actions))

\* the frame of an invocation that has returned ret
\* its local variables are kept as they are at the return
ReturnedFrame(f, path, ret) ==
    [f EXCEPT !.pc = "done", !.request_id = NoRequestId, !.path = path, !.ret = ret]

\* the final add_conversation_turn and the return of process_user_query
FinalTurn(m, f, path, reevaluated, final_thought, final_tool_name, final_agent_answer) ==
    LET \* tool_name= of the final turn: the initial tool name unless it is the
        \* sentinel or a re-evaluation ended with the sentinel
        logged ==
            IF f.llm_tool_name # final_answer_tool
               /\ ~(reevaluated /\ final_tool_name = final_answer_tool)
            THEN f.llm_tool_name
            ELSE None
    IN  [memory |-> add_conversation_turn(
                        m, "agent",
                        IF reevaluated THEN final_thought ELSE f.llm_thought,
                        logged,
                        IF f.llm_tool_name # final_answer_tool
                           /\ ~(reevaluated /\ final_tool_name = final_answer_tool)
                        THEN f.llm_tool_input
                        ELSE None,
                        f.tool_output_content,
                        final_agent_answer),
         frame  |-> ReturnedFrame(f, path, final_agent_answer)]

\* a re-evaluation after every tool result, whatever its status
AfterToolResult_AlwaysReevaluates(m, f, tool_execution_result) ==
    [memory |-> m,
     frame  |-> [f EXCEPT !.pc = "decide2",
                          !.tool_output_content = ResultStr(tool_execution_result),
                          !.decision_calls = @ + 1]]

\* after tool_to_call.execute returned tool_execution_result
AfterToolResult(m, f, tool_execution_result) ==
    LET \* the answer for a tool result with status error
        ToolErrorAnswer(speak, tool_name, message) ==
            (IF Truthy(speak)
             THEN speak
             ELSE <<"I tried to use the ">> \o tool_name \o <<" tool, but there was an error.">>)
                \o <<" Error: ">> \o message
        \* the answer for a tool result with an unexpected status
        ToolDetailsAnswer(speak, tool_name, tool_output_content) ==
            (IF Truthy(speak)
             THEN speak
             ELSE <<"I used the ">> \o tool_name \o <<" tool.">>)
                \o <<" Details: ">> \o tool_output_content
        g == [f EXCEPT !.tool_output_content = ResultStr(tool_execution_result)]
    IN  IF tool_execution_result.status = <<"success">>
        THEN [memory |-> m,
              frame  |-> [g EXCEPT !.pc = "decide2",
                                   !.actual_tool_output = tool_execution_result.output,
                                   !.decision_calls = @ + 1]]
        ELSE IF tool_execution_result.status = <<"error">>
        THEN FinalTurn(m, g, "tool_error", FALSE, None, None,
                       ToolErrorAnswer(g.llm_speak_output, g.llm_tool_name,
                                       tool_execution_result.message))
        ELSE FinalTurn(m, g, "tool_other", FALSE, None, None,
                       ToolDetailsAnswer(g.llm_speak_output, g.llm_tool_name,
                                         g.tool_output_content))

\* the answer of the except branch around the tool call
ToolExceptionAnswer(tool_name, error) ==
    <<"Sorry, I encountered an error trying to use the tool: ">> \o tool_name
        \o <<". Error: ">> \o error

material_property_fetcher == <<"material_property_fetcher">>

\* str(e) of the AttributeError of output_data.get on the int the child
\* sends as a result
IntAttributeErrorText == <<"'int' object has no attribute 'get'">>

\* after tool_to_call.execute of the wrapper registered under the plan's
\* tool name: mcp_result is what BaseMCPToolWrapper.execute returned; an
\* exception of the override reaches the except branch of the orchestrator
AfterExecute(m, f, mcp_result) ==
    \* MaterialPropertyFetcherMCPToolWrapper.execute goes on after the base
    \* execute with a success result whose output is truthy, and there calls
    \* output_data.get on the output, which from this child is an int
    IF /\ f.llm_tool_name = material_property_fetcher
       /\ mcp_result.status = <<"success">>
       /\ mcp_result.output \notin {None, <<"0">>}
    THEN FinalTurn(m, [f EXCEPT !.tool_output_content = <<"Error: ">> \o IntAttributeErrorText],
                   "execute_raised", FALSE, None, None,
                   ToolExceptionAnswer(f.llm_tool_name, IntAttributeErrorText))
    ELSE AfterToolResult(m, f, mcp_result)

\* the tool dispatch after the initial plan; tool_process is the process the
\* tool wrappers hold
Dispatch(m, f, tool_process) ==
    IF Truthy(f.llm_tool_name) /\ f.llm_tool_name # final_answer_tool
    THEN IF f.llm_tool_name \in RegisteredTools
         THEN IF tool_process = NoProcess
              THEN \* the wrapper holds no process
                   AfterExecute(m, [f EXCEPT !.tool_calls = @ + 1],
                                [status  |-> <<"error">>,
                                 message |-> <<"MCP server process not available.">>])
              ELSE [memory |-> m,
                    frame  |-> [f EXCEPT !.pc = "write", !.tool_calls = @ + 1]]
         ELSE FinalTurn(m, f, "tool_missing", FALSE, None, None,
                        ToolNotAvailableAnswer(f.llm_tool_name))
    ELSE FinalTurn(m, f, "final_answer", FALSE, None, None, f.llm_speak_output)

\* from the return of the initial execute_plan_with_memory on
AfterInitialPlan(m, f, plan, tool_process) ==
    LET g == [f EXCEPT !.llm_thought = plan.thought,
                       !.llm_tool_name = plan.tool_name,
                       !.llm_tool_input = plan.tool_input,
                       !.llm_speak_output = plan.speak]
        m1 == ApplyMemoryActions(m, plan.memory_actions)
    IN  IF MemoryActionsRaise(plan.memory_actions)
        THEN \* process_user_query left by an exception no handler catches:
             \* nothing more is logged and the caller gets the exception
             [memory |-> m1, frame |-> ReturnedFrame(g, "raised", AttributeErrorText)]
        ELSE Dispatch(m1, g, tool_process)

\* from the return of the re-evaluation execute_plan_with_memory on; its
\* memory actions run inside the try block around the tool call
AfterReevaluation(m, f, plan) ==
    LET g == [f EXCEPT !.final_thought = plan.thought,
                       !.final_tool_name = plan.tool_name,
                       !.final_speak_output = plan.speak]
        m1 == ApplyFinalMemoryActions(m, plan.memory_actions)
    IN  IF MemoryActionsRaise(plan.memory_actions)
        THEN FinalTurn(m1, [g EXCEPT !.tool_output_content = <<"Error: ">> \o AttributeErrorText],
                       "tool_exception", TRUE, plan.thought, plan.tool_name,
                       ToolExceptionAnswer(g.llm_tool_name, AttributeErrorText))
        ELSE FinalTurn(m1, g, "reevaluated", TRUE, plan.thought, plan.tool_name,
                       IF plan.tool_name = final_answer_tool /\ Truthy(plan.speak)
                       THEN plan.speak
                       ELSE ToolUsedAnswer(g.llm_tool_name, g.actual_tool_output))

\* the plan execute_plan_with_memory returns without calling the LLM
NotInitializedPlan ==
    [thought |-> <<"LLM not initialized.">>, tool_name |-> final_answer_tool,
     tool_input |-> EmptyDict,
     speak |-> <<"Sorry, I'm having trouble thinking right now.">>,
     memory_actions |-> <<>>]

\* the repeat branch falling through to the decision engine
RepeatBranch_AsksDecision(m, f, repeated_answer) ==
    [memory |-> m, frame |-> [f EXCEPT !.pc = "decide1", !.decision_calls = 1]]

\* the repeat branch: the answer from memory is logged and returned
RepeatBranch(m, f, repeated_answer) ==
    [memory |-> add_conversation_turn(m, "agent", <<"Retrieved from memory.">>,
                                      None, None, None, repeated_answer),
     frame  |-> ReturnedFrame(f, "repeat", repeated_answer)]

\* process_user_query looking for a repeat before it logs the user turn
BeginQuery_ChecksFirst(m, active, user_query, tool_process, llm_ok, uuid) ==
    LET m0 == IF active THEN m ELSE StartSessionMemory(m)
        m1 == add_conversation_turn(m0, "user", user_query, None, None, None, None)
        g  == [IdleFrame EXCEPT !.user_query = user_query, !.request_id = uuid,
                                !.implicit_start = ~active]
        repeated_answer == check_for_repeated_question(m0, user_query, DefaultLookback)
    IN  IF Normalize(user_query) \in TerminationPhrases
        THEN [memory |-> EndSessionMemory(m1),
              frame  |-> ReturnedFrame(g, "terminated", farewell_message),
              active |-> FALSE]
        ELSE IF Truthy(repeated_answer)
        THEN RepeatBranch(m1, g, repeated_answer) @@ [active |-> TRUE]
        ELSE IF llm_ok
        THEN [memory |-> m1,
              frame  |-> [g EXCEPT !.pc = "decide1", !.decision_calls = 1],
              active |-> TRUE]
        ELSE AfterInitialPlan(m1, [g EXCEPT !.decision_calls = 1], NotInitializedPlan,
                              tool_process) @@ [active |-> TRUE]

\* process_user_query from its first line to its first suspension or return;
\* m is the Memory and active the session flag it finds
BeginQuery(m, active, user_query, tool_process, llm_ok, uuid) ==
    LET m0 == IF active THEN m ELSE StartSessionMemory(m)
        m1 == add_conversation_turn(m0, "user", user_query, None, None, None, None)
        \* uuid: the request id execute() draws if this invocation reaches it
        g  == [IdleFrame EXCEPT !.user_query = user_query, !.request_id = uuid,
                                !.implicit_start = ~active]
        repeated_answer == check_for_repeated_question(m1, user_query, DefaultLookback)
    IN  IF Normalize(user_query) \in TerminationPhrases
        THEN [memory |-> EndSessionMemory(m1),
              frame  |-> ReturnedFrame(g, "terminated", farewell_message),
              active |-> FALSE]
        ELSE IF Truthy(repeated_answer)
        THEN RepeatBranch(m1, g, repeated_answer) @@ [active |-> TRUE]
        ELSE IF llm_ok
        THEN [memory |-> m1,
              frame  |-> [g EXCEPT !.pc = "decide1", !.decision_calls = 1],
              active |-> TRUE]
        ELSE AfterInitialPlan(m1, [g EXCEPT !.decision_calls = 1], NotInitializedPlan,
                              tool_process) @@ [active |-> TRUE]

-----------------------------------------------------------------------------
(* Inputs: what the user types and what the decision engine returns *)

Queries == {<<"q">>, <<" ", "Q">>, <<"B", "y", "e", " ">>}

\* memory_actions entries the LLM may send
SetScheme1 == [action |-> <<"set_current_scheme">>, scheme_id |-> <<"scheme_1">>]

StoreSummary1 ==
    [action |-> <<"store_fact">>, key |-> <<"scheme_1", "_summary">>, value |-> <<"V">>]

StoreCurrentId2 ==
    [action |-> <<"store_fact">>, key |-> <<"current_scheme_id">>, value |-> <<"scheme_2">>]

UpdateName ==
    [action |-> <<"update_current_scheme_data">>, data |-> Put(EmptyDict, <<"name">>, <<"X">>)]

Plan(thought, tool_name, tool_input, speak, memory_actions) ==
    [thought |-> thought, tool_name |-> tool_name, tool_input |-> tool_input,
     speak |-> speak, memory_actions |-> memory_actions]

\* what the initial execute_plan_with_memory may return when the LLM is called
InitialPlans ==
    { Plan(<<"T1">>, final_answer_tool, EmptyDict, <<"S1">>, ma) :
          ma \in { <<>>, <<StoreSummary1, SetScheme1>>, <<SetScheme1, StoreSummary1>>,
                   <<StoreCurrentId2>>, <<UpdateName>>,
                   <<StoreSummary1, JsonString(<<"note">>)>> } }
    \cup { Plan(<<"T1">>, tn, ti, <<"S1">>, <<>>) :
             tn \in {<<"add">>, <<"ai_form_schemer">>, <<"sum">>}, ti \in {AddInput(2, 3)} }
    \cup { Plan(<<"T1">>, material_property_fetcher,
                Put(Put(EmptyDict, <<"material_name">>, <<"steel">>),
                    <<"property_name">>, <<"density">>),
                <<"S1">>, <<>>) }
    \cup { Plan(<<"Error: Could not parse LLM response.">>, final_answer_tool, EmptyDict,
                <<"I'm sorry, I had trouble understanding the response format.">>, <<>>) }

\* what the re-evaluation execute_plan_with_memory may return
ReevaluationPlans ==
    { Plan(<<"T2">>, final_answer_tool, EmptyDict, sp, <<>>) : sp \in {<<"S2">>, <<>>} }
    \cup { Plan(<<"T2">>, <<"add">>, AddInput(2, 3), <<"S2">>, <<>>),
           Plan(<<"T2">>, final_answer_tool, EmptyDict, <<"S2">>,
                <<StoreSummary1, SetScheme1, UpdateName>>),
           Plan(<<"T2">>, final_answer_tool, EmptyDict, <<"S2">>, <<JsonString(<<"note">>)>>) }

-----------------------------------------------------------------------------
(* Spec: one agent, its child process and its callers *)

\* the state ConversationalAgent.__init__ leaves: Popen succeeded and the
\* process was injected into the tools, or Popen raised and set_dependencies
\* was refused (TypeError), so the tools hold no process
Init ==
    /\ memory = NewMemory
    /\ is_session_active = FALSE
    /\ \/ /\ procs = <<NewProcess>>
          /\ mcp_server_process = 1
          /\ tool_mcp_process = 1
       \/ /\ procs = <<>>
          /\ mcp_server_process = NoProcess
          /\ tool_mcp_process = NoProcess
    /\ frames = [c \in Callers |-> IdleFrame]
    /\ calls = 0
    /\ llm_initialized \in BOOLEAN
    /\ sessions = EmptyDict
    /\ tasks = <<>>
    /\ last = NoCall

\* the event of a step of caller c's invocation that leaves frame f: op is
\* "process_user_query" for the call itself and "resume" for a later stretch
StepEvent(op, c, f) == [op |-> op, caller |-> c, returned |-> f.pc = "done"]

\* a caller invokes process_user_query(user_query); it runs to its first
\* suspension or to its return
ProcessUserQuery(c) ==
    /\ frames[c].pc \in {"idle", "done"}
    /\ calls < MaxCalls
    /\ \E user_query \in Queries :
          LET r == BeginQuery(memory, is_session_active, user_query, tool_mcp_process,
                              llm_initialized, calls + 1)
          IN  /\ memory' = r.memory
              /\ is_session_active' = r.active
              /\ frames' = [frames EXCEPT ![c] = r.frame]
              /\ last' = StepEvent("process_user_query", c, r.frame)
    /\ calls' = calls + 1
    /\ UNCHANGED <<mcp_server_process, tool_mcp_process, procs, llm_initialized, sessions, tasks>>

\* the initial inference call returns and the coroutine runs on
InitialPlanReturns(c) ==
    /\ frames[c].pc = "decide1"
    /\ \E plan \in InitialPlans :
          LET r == AfterInitialPlan(memory, frames[c], plan, tool_mcp_process)
          IN  /\ memory' = r.memory
              /\ frames' = [frames EXCEPT ![c] = r.frame]
              /\ last' = StepEvent("resume", c, r.frame)
    /\ UNCHANGED <<is_session_active, mcp_server_process, tool_mcp_process, procs,
                   calls, llm_initialized, sessions, tasks>>

\* write_to_stdin_sync ran in the executor and execute() runs on: the request
\* line is in the pipe, or the write raised and execute() returned an error
WriteToStdin(c) ==
    /\ frames[c].pc = "write"
    /\ LET f == frames[c]
           p == tool_mcp_process
       IN  IF procs[p].alive
           THEN /\ procs' = [procs EXCEPT ![p].stdin =
                                Append(@, JsonRpcRequest(f.llm_tool_name, f.llm_tool_input,
                                                         f.request_id))]
                /\ frames' = [frames EXCEPT ![c].pc = "read"]
                /\ UNCHANGED memory
                /\ last' = NoCall
           ELSE LET \* the result of the except branch after a write to a closed pipe
                    broken_pipe == [status    |-> <<"error">>,
                                    tool_name |-> f.llm_tool_name,
                                    message   |-> <<"[Errno 32] Broken pipe">>]
                    r == AfterExecute(memory, f, broken_pipe)
                IN  /\ memory' = r.memory
                    /\ frames' = [frames EXCEPT ![c] = r.frame]
                    /\ last' = StepEvent("resume", c, r.frame)
                    /\ UNCHANGED procs
    /\ UNCHANGED <<is_session_active, mcp_server_process, tool_mcp_process,
                   calls, llm_initialized, sessions, tasks>>

\* read_from_stdout_sync returned a line (or "" at end of file) and execute()
\* and the coroutine run on
ReadFromStdout(c) ==
    /\ frames[c].pc = "read"
    /\ LET f == frames[c]
           p == tool_mcp_process
       IN  /\ procs[p].stdout # <<>> \/ ~procs[p].alive
           /\ LET response_str == IF procs[p].stdout # <<>> THEN Head(procs[p].stdout)
                                  ELSE EofLine
                  \* the result execute() builds from the line it read
                  mcp_result ==
                      IF response_str = EofLine
                      THEN [status  |-> <<"error">>,
                            message |-> <<"Empty response from MCP server.">>]
                      ELSE LET mcp_response_data == response_str.json
                           IN  IF "result" \in DOMAIN mcp_response_data
                               THEN [status |-> <<"success">>, tool_name |-> f.llm_tool_name,
                                     output |-> mcp_response_data.result]
                               ELSE IF "error" \in DOMAIN mcp_response_data
                               THEN [status |-> <<"error">>, tool_name |-> f.llm_tool_name,
                                     message |-> mcp_response_data.error]
                               ELSE [status  |-> <<"error">>,
                                     message |-> <<"Unknown response format from MCP server.">>]
                  r == AfterExecute(memory, f, mcp_result)
              IN  /\ procs' = IF procs[p].stdout # <<>>
                              THEN [procs EXCEPT ![p].stdout = Tail(@)]
                              ELSE procs
                  /\ memory' = r.memory
                  /\ frames' = [frames EXCEPT ![c] = r.frame]
                  /\ last' = StepEvent("resume", c, r.frame)
    /\ UNCHANGED <<is_session_active, mcp_server_process, tool_mcp_process,
                   calls, llm_initialized, sessions, tasks>>

\* the re-evaluation inference call returns and the coroutine runs to its end
ReevaluationReturns(c) ==
    /\ frames[c].pc = "decide2"
    /\ \E plan \in ReevaluationPlans :
          LET r == AfterReevaluation(memory, frames[c], plan)
          IN  /\ memory' = r.memory
              /\ frames' = [frames EXCEPT ![c] = r.frame]
              /\ last' = [op |-> "resume", caller |-> c, returned |-> r.frame.pc = "done",
                          final_memory_actions |-> plan.memory_actions]
    /\ UNCHANGED <<is_session_active, mcp_server_process, tool_mcp_process, procs,
                   calls, llm_initialized, sessions, tasks>>

ChildServes(p) ==
    /\ procs[p].alive
    /\ procs[p].stdin # <<>>
    /\ procs' = [procs EXCEPT ![p].stdin = Tail(@),
                              ![p].stdout = Append(@, process_request(Head(procs[p].stdin)))]
    /\ last' = NoCall
    /\ UNCHANGED <<memory, is_session_active, mcp_server_process, tool_mcp_process,
                   frames, calls, llm_initialized, sessions, tasks>>

\* the child exits on its own (crash, kill from outside)
ChildExits(p) ==
    /\ procs[p].alive
    /\ procs' = [procs EXCEPT ![p].alive = FALSE, ![p].stdin = <<>>]
    /\ last' = NoCall
    /\ UNCHANGED <<memory, is_session_active, mcp_server_process, tool_mcp_process,
                   frames, calls, llm_initialized, sessions, tasks>>

\* agent.start_session()
StartSession ==
    /\ calls < MaxCalls
    /\ calls' = calls + 1
    /\ is_session_active' = TRUE
    /\ memory' = StartSessionMemory(memory)
    /\ last' = [op |-> "start_session", result |-> initial_greeting]
    /\ UNCHANGED <<mcp_server_process, tool_mcp_process, procs, frames,
                   llm_initialized, sessions, tasks>>

\* agent.end_session()
EndSession ==
    /\ calls < MaxCalls
    /\ calls' = calls + 1
    /\ LET r == end_session(memory, is_session_active)
       IN  /\ memory' = r.memory
           /\ is_session_active' = r.active
           /\ last' = [op |-> "end_session", result |-> r.result]
    /\ UNCHANGED <<mcp_server_process, tool_mcp_process, procs, frames,
                   llm_initialized, sessions, tasks>>

\* start_mcp_server that spawns without looking at the handle
StartMcpServer_AlwaysSpawns ==
    /\ calls < MaxCalls
    /\ calls' = calls + 1
    /\ Len(procs) < MaxProcs
    /\ procs' = Append(procs, NewProcess)
    /\ mcp_server_process' = Len(procs) + 1
    /\ last' = [op |-> "start_mcp_server"]
    /\ UNCHANGED <<memory, is_session_active, tool_mcp_process, frames,
                   llm_initialized, sessions, tasks>>

\* agent.start_mcp_server(): nothing if the child is running; else Popen
\* gives a new child, or raises and the handle becomes None
StartMcpServer ==
    /\ calls < MaxCalls
    /\ calls' = calls + 1
    /\ IF mcp_server_process # NoProcess /\ procs[mcp_server_process].alive
       THEN UNCHANGED <<mcp_server_process, procs>>
       ELSE \/ /\ Len(procs) < MaxProcs
               /\ procs' = Append(procs, NewProcess)
               /\ mcp_server_process' = Len(procs) + 1
            \/ /\ mcp_server_process' = NoProcess
               /\ UNCHANGED procs
    /\ last' = [op |-> "start_mcp_server"]
    /\ UNCHANGED <<memory, is_session_active, tool_mcp_process, frames,
                   llm_initialized, sessions, tasks>>

\* stop_mcp_server that gives up after the grace period: a child that did
\* not exit on SIGTERM is left running
StopMcpServer_NoKill ==
    /\ calls < MaxCalls
    /\ calls' = calls + 1
    /\ IF mcp_server_process # NoProcess /\ procs[mcp_server_process].alive
       THEN /\ \E exited_in_time \in BOOLEAN :
                  /\ procs' = IF exited_in_time
                              THEN [procs EXCEPT ![mcp_server_process].alive = FALSE,
                                                 ![mcp_server_process].stdin = <<>>]
                              ELSE procs
                  /\ last' = [op |-> "stop_mcp_server", signals |-> <<"SIGTERM">>]
            /\ mcp_server_process' = NoProcess
       ELSE /\ UNCHANGED <<mcp_server_process, procs>>
            /\ last' = [op |-> "stop_mcp_server", signals |-> <<>>]
    /\ UNCHANGED <<memory, is_session_active, tool_mcp_process, frames,
                   llm_initialized, sessions, tasks>>

\* agent.stop_mcp_server(): terminate, wait for the grace period, kill if the
\* child has not exited by then, clear the handle; signals are the signals
\* sent
StopMcpServer ==
    /\ calls < MaxCalls
    /\ calls' = calls + 1
    /\ IF mcp_server_process # NoProcess /\ procs[mcp_server_process].alive
       THEN /\ procs' = [procs EXCEPT ![mcp_server_process].alive = FALSE,
                                      ![mcp_server_process].stdin = <<>>]
            /\ mcp_server_process' = NoProcess
            /\ \E exited_in_time \in BOOLEAN :
                  last' = [op |-> "stop_mcp_server",
                           signals |-> IF exited_in_time THEN <<"SIGTERM">>
                                       ELSE <<"SIGTERM", "SIGKILL">>]
       ELSE /\ UNCHANGED <<mcp_server_process, procs>>
            /\ last' = [op |-> "stop_mcp_server", signals |-> <<>>]
    /\ UNCHANGED <<memory, is_session_active, tool_mcp_process, frames,
                   llm_initialized, sessions, tasks>>

Next ==
    \/ \E c \in Callers : ProcessUserQuery(c)
    \/ \E c \in Callers : InitialPlanReturns(c)
    \/ \E c \in Callers : WriteToStdin(c)
    \/ \E c \in Callers : ReadFromStdout(c)
    \/ \E c \in Callers : ReevaluationReturns(c)
    \/ \E p \in 1..Len(procs) : ChildServes(p)
    \/ \E p \in 1..Len(procs) : ChildExits(p)
    \/ StartSession
    \/ EndSession
    \/ StartMcpServer
    \/ StopMcpServer

Spec == Init /\ [][Next]_vars

-----------------------------------------------------------------------------
(* Properties of the agent, its Memory and its child process *)

IsPrefix(s, t) == Len(s) <= Len(t) /\ SubSeq(t, 1, Len(s)) = s

History == memory.conversation_history

UserTurn(q) == Turn("user", q, None, None, None, None)

GreetingTurn == Turn("agent", initial_greeting, None, None, None, initial_greeting)

ClosingTurn == Turn("agent", session_ended_content, None, None, None, farewell_message)

\* the step just taken was caller c's call of process_user_query
Called(c) == last.op = "process_user_query" /\ last.caller = c

\* the step just taken returned from caller c's process_user_query
JustReturned(c) ==
    last.op \in {"process_user_query", "resume"} /\ last.caller = c /\ last.returned

Running(p) == p # NoProcess /\ procs[p].alive

\* the invocations that have begun and not returned
InProgress == {c \in Callers : frames[c].pc \notin {"idle", "done"}}

\* the calls that have written their request and not read a response line
AwaitingResponse == {c \in Callers : frames[c].pc = "read"}

\* C1: whenever the current-scheme pointer is set, the fact stored under
\* 'current_scheme_id' equals it, so get_current_scheme_id() and
\* retrieve_fact('current_scheme_id') give the same value
C1_MirrorInvariant ==
    memory.current_scheme_id # None =>
        /\ retrieve_fact(memory, <<"current_scheme_id">>) = memory.current_scheme_id
        /\ get_current_scheme_id(memory) = retrieve_fact(memory, <<"current_scheme_id">>)

\* C2: an invocation whose initial plan names a tool that is neither the
\* sentinel nor registered returns the 'tool not available' answer, executes
\* no tool and no re-evaluation, and logs an agent turn without tool_name,
\* tool_input and tool_output
C2_UnregisteredTool ==
    \A c \in Callers :
        (/\ JustReturned(c)
         /\ Truthy(frames[c].llm_tool_name)
         /\ frames[c].llm_tool_name # final_answer_tool
         /\ frames[c].llm_tool_name \notin RegisteredTools) =>
            /\ frames[c].ret = ToolNotAvailableAnswer(frames[c].llm_tool_name)
            /\ frames[c].tool_calls = 0
            /\ frames[c].decision_calls = 1
            /\ History[Len(History)].role = "agent"
            /\ History[Len(History)].final_answer = frames[c].ret
            /\ DOMAIN History[Len(History)] \cap {"tool_name", "tool_input", "tool_output"} = {}

\* C3: at the step that issues a tool call, if no child of the agent is
\* running the call ends in an error result (at once, or its request goes to
\* a process that is not alive), and if a child of the agent is running, as
\* after a start_mcp_server that spawned it, the request goes to that child
C3_CallAfterStart ==
    [][\A c \in Callers :
          frames'[c].tool_calls = frames[c].tool_calls + 1 =>
              IF Running(mcp_server_process)
              THEN /\ frames'[c].pc = "write"
                   /\ tool_mcp_process = mcp_server_process
              ELSE \/ frames'[c].path = "tool_error"
                   \/ frames'[c].pc = "write" /\ ~Running(tool_mcp_process)
      ]_vars

\* C4: at most one request has been written to the pipe whose response line
\* has not yet been read
C4_NoPipelining == Cardinality(AwaitingResponse) <= 1

\* C5: at most one process_user_query invocation is in progress: a second one
\* does not begin before the first has returned
C5_OneTurnAtATime == Cardinality(InProgress) <= 1

\* C8: a process_user_query call whose repeat check finds a prior answer
\* appends, after the user turn, exactly one agent turn with that answer as
\* final_answer, returns that answer, and calls neither the decision engine
\* nor a tool
C8_RepeatPath ==
    [][\A c \in Callers :
          (last'.op = "process_user_query" /\ last'.caller = c) =>
              LET q  == frames'[c].user_query
                  h1 == Append(IF is_session_active THEN History ELSE <<GreetingTurn>>,
                               UserTurn(q))
                  prior == ExpectedRepeat(h1, q, DefaultLookback)
                  h2 == memory'.conversation_history
              IN  (Normalize(q) \notin TerminationPhrases /\ Truthy(prior)) =>
                      /\ Len(h2) = Len(h1) + 1
                      /\ SubSeq(h2, 1, Len(h1)) = h1
                      /\ h2[Len(h2)].role = "agent"
                      /\ "final_answer" \in DOMAIN h2[Len(h2)]
                      /\ h2[Len(h2)].final_answer = prior
                      /\ frames'[c].pc = "done"
                      /\ frames'[c].ret = prior
                      /\ frames'[c].decision_calls = 0
                      /\ frames'[c].tool_calls = 0
      ]_vars

\* C8 witness: a call has just returned an earlier answer from memory, for a
\* query typed differently from the one that was answered
C8_Witness ==
    \E c \in Callers :
        /\ Called(c)
        /\ last.returned
        /\ frames[c].decision_calls = 0
        /\ frames[c].ret = <<"S1">>
        /\ \E i \in UserTurns(History) :
              /\ History[i].content # frames[c].user_query
              /\ SameQuestion(History, i, frames[c].user_query)

\* C9: in an active session, process_user_query with a termination phrase
\* appends the user turn and the closing agent turn, returns the farewell,
\* ends the session and does nothing else to Memory, the decision engine or
\* the tools; end_session() in an active session appends the closing turn,
\* returns the farewell and ends the session
C9_Termination ==
    [][/\ \A c \in Callers :
             (/\ last'.op = "process_user_query" /\ last'.caller = c
              /\ is_session_active
              /\ Normalize(frames'[c].user_query) \in TerminationPhrases) =>
                 /\ memory' = [memory EXCEPT !.conversation_history =
                                   History \o <<UserTurn(frames'[c].user_query), ClosingTurn>>]
                 /\ frames'[c].pc = "done"
                 /\ frames'[c].ret = <<"That is all, thank you.">>
                 /\ frames'[c].decision_calls = 0
                 /\ frames'[c].tool_calls = 0
                 /\ is_session_active' = FALSE
                 /\ procs' = procs
       /\ (last'.op = "end_session" /\ is_session_active) =>
             /\ memory' = [memory EXCEPT !.conversation_history = Append(History, ClosingTurn)]
             /\ last'.result = <<"That is all, thank you.">>
             /\ is_session_active' = FALSE
      ]_vars

\* C9 witness: a termination phrase typed with capitals and a trailing blank
\* has just ended a session in which a query had been answered
C9_Witness ==
    \E c \in Callers :
        /\ Called(c)
        /\ last.returned
        /\ frames[c].user_query = <<"B", "y", "e", " ">>
        /\ ~is_session_active
        /\ Cardinality(UserTurns(History)) >= 2
        /\ History[Len(History)] = ClosingTurn

\* C10: after start_session() the session is active and Memory holds no
\* facts, no scheme records, no current scheme and exactly one turn, the
\* greeting with the greeting as final_answer
C10_StartSession ==
    last.op = "start_session" =>
        /\ is_session_active
        /\ last.result = <<"What do you want to do today?">>
        /\ DOMAIN memory.facts = {}
        /\ DOMAIN memory.schemes_data = {}
        /\ memory.current_scheme_id = None
        /\ Len(History) = 1
        /\ History[1].role = "agent"
        /\ History[1].content = <<"What do you want to do today?">>
        /\ DOMAIN History[1] = {"role", "content", "final_answer"}
        /\ History[1].final_answer = <<"What do you want to do today?">>

\* C10 witness: start_session() has just been called in a session in which
\* a query had been answered
C10_Witness ==
    /\ last.op = "start_session"
    /\ \E c \in Callers :
          /\ frames[c].pc = "done"
          /\ frames[c].path = "final_answer"
          /\ frames[c].ret = <<"S1">>

\* the tool call of the invocation returned a result with status success
ToolSucceeded(f) == f.actual_tool_output # None

\* the invocation made its re-evaluation call and got a plan back
Reevaluated(f) == f.final_thought # None

\* the invocation went past the termination and repeat checks
DecisionPath(f) == f.pc = "done" /\ f.path \notin {"terminated", "repeat"}

LastTurn == History[Len(History)]

\* C11: end_session() with no active session returns 'No active session to
\* end.', leaves Memory as it is and the session inactive
C11_EndSessionWhenIdle ==
    [][(last'.op = "end_session" /\ ~is_session_active) =>
          /\ last'.result = <<"No active session to end.">>
          /\ memory' = memory
          /\ is_session_active' = FALSE
      ]_vars

\* C11 witness: end_session() has just reported no active session to a
\* Memory that still holds the turns of a session ended before
C11_Witness ==
    /\ last.op = "end_session"
    /\ last.result = <<"No active session to end.">>
    /\ ~is_session_active
    /\ Len(History) >= 3

\* C12: a process_user_query call with a query that is not a termination
\* phrase returns an answer to its caller, never an exception, and the
\* session is active when it returns
C12_AlwaysAnswers ==
    \A c \in Callers :
        (JustReturned(c) /\ Normalize(frames[c].user_query) \notin TerminationPhrases) =>
            /\ frames[c].path # "raised"
            /\ is_session_active
            /\ LastTurn.role = "agent"
            /\ LastTurn.final_answer = frames[c].ret

\* C13: a turn that reaches the decision engine calls it twice if its
\* initial plan named a registered tool whose result had status success, and
\* once otherwise; the re-evaluation happens in exactly that case; the tool
\* is executed at most once, and only if registered
C13_ReevaluationIffSuccess ==
    \A c \in Callers :
        /\ frames[c].tool_calls <= 1
        /\ frames[c].decision_calls <= 2
        /\ DecisionPath(frames[c]) =>
              LET f == frames[c]
                  success == f.llm_tool_name \in RegisteredTools /\ ToolSucceeded(f)
              IN  /\ f.decision_calls = IF success THEN 2 ELSE 1
                  /\ Reevaluated(f) <=> success
                  /\ f.tool_calls = 1 => f.llm_tool_name \in RegisteredTools

\* C13 witness: a turn has just returned after a successful tool call and a
\* re-evaluation, while another turn returned after a tool error
C13_Witness ==
    \E c, d \in Callers :
        /\ JustReturned(c)
        /\ ToolSucceeded(frames[c])
        /\ frames[c].decision_calls = 2
        /\ frames[d].pc = "done"
        /\ frames[d].path = "tool_error"
        /\ frames[d].decision_calls = 1

\* C14: after a successful tool call the returned answer is the speak of the
\* re-evaluation plan if that plan's tool_name is the sentinel, and the
\* 'tool was used, result' message otherwise
C14_ReevaluationAnswer ==
    \A c \in Callers :
        (JustReturned(c) /\ ToolSucceeded(frames[c]) /\ frames[c].path # "tool_exception") =>
            frames[c].ret =
                IF frames[c].final_tool_name = final_answer_tool
                THEN frames[c].final_speak_output
                ELSE ToolUsedAnswer(frames[c].llm_tool_name, frames[c].actual_tool_output)

\* C15: the final agent turn of a decision-path turn holds the thought that
\* led to the answer and the answer; if a tool was executed it holds the raw
\* tool output, also when the re-evaluation ended with the sentinel; it holds
\* the tool name and input if a tool was executed and the final step did not
\* use the sentinel, and neither if the re-evaluation ended with the sentinel
C15_FinalTurnRecord ==
    \A c \in Callers :
        (JustReturned(c) /\ DecisionPath(frames[c]) /\ frames[c].path # "raised") =>
            LET f == frames[c]
                executed == f.tool_calls = 1
                sentinel_last == Reevaluated(f) /\ f.final_tool_name = final_answer_tool
            IN  /\ LastTurn.role = "agent"
                /\ LastTurn.content = IF Reevaluated(f) THEN f.final_thought ELSE f.llm_thought
                /\ LastTurn.final_answer = f.ret
                /\ (executed /\ f.tool_output_content # None) =>
                      /\ "tool_output" \in DOMAIN LastTurn
                      /\ LastTurn.tool_output = f.tool_output_content
                /\ (executed /\ ~sentinel_last) =>
                      /\ "tool_name" \in DOMAIN LastTurn
                      /\ LastTurn.tool_name = f.llm_tool_name
                      /\ LastTurn.tool_input = f.llm_tool_input
                /\ sentinel_last => "tool_name" \notin DOMAIN LastTurn

-----------------------------------------------------------------------------
(* Properties of the Memory on its own *)

CurrentSchemeKey == <<"current_scheme_id">>

\* the fact under key is present with a value other than None
NonNullFact(m, key) == key \in DOMAIN m.facts /\ m.facts[key] # None

\* scheme_id has a scheme record or a non-null details or summary fact
Known(m, scheme_id) ==
    \/ scheme_id \in DOMAIN m.schemes_data
    \/ NonNullFact(m, scheme_id \o <<"_details">>)
    \/ NonNullFact(m, scheme_id \o <<"_summary">>)

\* every key a fact has before or after the step
FactKeysOfStep == MemFactKeys \cup DOMAIN memory.facts \cup DOMAIN memory'.facts

\* every scheme id with a record before or after the step
SchemeIdsOfStep == MemSchemeIds \cup DOMAIN memory.schemes_data \cup DOMAIN memory'.schemes_data

\* C17: set_current_scheme(id) for an id with no scheme record and no
\* non-null '{id}_details' or '{id}_summary' fact returns false and leaves
\* the whole Memory as it was
C17_SetCurrentSchemeUnknown ==
    [][(last'.op = "set_current_scheme" /\ ~Known(memory, last'.scheme_id)) =>
          /\ last'.result = FALSE
          /\ memory' = memory
      ]_vars

\* C17 witness: set_current_scheme has just failed for an id whose summary
\* fact is stored as None, while the pointer is set to another scheme
C17_Witness ==
    /\ last.op = "set_current_scheme"
    /\ last.result = FALSE
    /\ last.scheme_id = <<"scheme_1">>
    /\ <<"scheme_1", "_summary">> \in DOMAIN memory.facts
    /\ memory.current_scheme_id = <<"scheme_2">>
    /\ Len(memory.conversation_history) > 0

\* C18: set_current_scheme(id) returns true exactly when id has a scheme
\* record or a non-null details or summary fact; then the pointer,
\* get_current_scheme_id() and the fact 'current_scheme_id' all equal id, and
\* the scheme records and the turn log are unchanged
C18_SetCurrentSchemeKnown ==
    [][last'.op = "set_current_scheme" =>
          /\ last'.result = Known(memory, last'.scheme_id)
          /\ Known(memory, last'.scheme_id) =>
                /\ memory'.current_scheme_id = last'.scheme_id
                /\ get_current_scheme_id(memory') = last'.scheme_id
                /\ retrieve_fact(memory', CurrentSchemeKey) = last'.scheme_id
                /\ memory'.schemes_data = memory.schemes_data
                /\ memory'.conversation_history = memory.conversation_history
      ]_vars

\* C18 witness: set_current_scheme has just succeeded for an id known only
\* by its details fact, replacing another current scheme
C18_Witness ==
    /\ last.op = "set_current_scheme"
    /\ last.result = TRUE
    /\ last.scheme_id = <<"scheme_2">>
    /\ <<"scheme_2">> \notin DOMAIN memory.schemes_data
    /\ <<"scheme_1">> \in DOMAIN memory.schemes_data
    /\ memory.current_scheme_id = <<"scheme_2">>

\* C19: store_fact(k, v) makes retrieve_fact(k) give v and changes no other
\* key; clear() makes every key absent; no other operation changes what
\* retrieve_fact gives, except a successful set_current_scheme(id), which
\* stores id under 'current_scheme_id'
C19_LastWriteWins ==
    [][\A key \in FactKeysOfStep :
          retrieve_fact(memory', key) =
              IF last'.op = "store_fact" /\ last'.key = key
              THEN last'.value
              ELSE IF last'.op = "clear"
              THEN None
              ELSE IF /\ last'.op = "set_current_scheme"
                      /\ last'.result
                      /\ key = CurrentSchemeKey
              THEN last'.scheme_id
              ELSE retrieve_fact(memory, key)
      ]_vars

\* C19 witness: a fact has just been stored over an earlier value while
\* other facts are present
C19_Witness ==
    /\ last.op = "store_fact"
    /\ last.key = <<"current_scheme_id">>
    /\ last.value = <<"V">>
    /\ memory.current_scheme_id = <<"scheme_1">>
    /\ NonNullFact(memory, <<"scheme_1", "_summary">>)
    /\ <<"scheme_2", "_details">> \in DOMAIN memory.facts

\* C20: store_scheme_data(id, d2) without overwrite on a record d1 leaves
\* the record with the keys of both and d2's values where both have the key;
\* with overwrite, or with no record before, the record is d2; the records
\* of other ids are unchanged
C20_SchemeMerge ==
    [][last'.op = "store_scheme_data" =>
          LET id  == last'.scheme_id
              d2  == last'.data
              old == memory.schemes_data
              new == memory'.schemes_data
          IN  /\ id \in DOMAIN new
              /\ retrieve_scheme_data(memory', id) = new[id]
              /\ IF id \in DOMAIN old /\ ~last'.overwrite
                 THEN /\ DOMAIN new[id] = DOMAIN old[id] \cup DOMAIN d2
                      /\ \A k \in DOMAIN new[id] :
                            new[id][k] = IF k \in DOMAIN d2 THEN d2[k] ELSE old[id][k]
                 ELSE new[id] = d2
              /\ \A other \in SchemeIdsOfStep \ {id} :
                    /\ other \in DOMAIN new <=> other \in DOMAIN old
                    /\ other \in DOMAIN old => new[other] = old[other]
      ]_vars

\* C20 witness: a record with name and cost has just been merged with a
\* record that has a name only, so the name is the new one and the cost the
\* old one, and another scheme has a record
C20_Witness ==
    /\ last.op = "store_scheme_data"
    /\ ~last.overwrite
    /\ last.scheme_id = <<"scheme_1">>
    /\ last.data = NameX
    /\ <<"scheme_1">> \in DOMAIN memory.schemes_data
    /\ DOMAIN memory.schemes_data[<<"scheme_1">>] = {<<"name">>, <<"cost">>}
    /\ memory.schemes_data[<<"scheme_1">>][<<"name">>] = <<"X">>
    /\ <<"scheme_2">> \in DOMAIN memory.schemes_data

-----------------------------------------------------------------------------
(* ActionsSpec: the memory-actions loop of process_user_query over every
   short list of entries, turn after turn on one Memory *)

SetSchemeMissingId == [action |-> <<"set_current_scheme">>]

SetScheme3 == [action |-> <<"set_current_scheme">>, scheme_id |-> <<"scheme_3">>]

UpdateMissingData == [action |-> <<"update_current_scheme_data">>]

Frobnicate == [action |-> <<"frobnicate">>, key |-> <<"scheme_1", "_summary">>]

\* every list of at most MaxActions entries
ActionLists ==
    LET entries == { StoreSummary1, SetScheme1, StoreCurrentId2, UpdateName,
                     SetSchemeMissingId, SetScheme3, UpdateMissingData, Frobnicate,
                     JsonString(<<"note">>) }
    IN  UNION { [1..n -> entries] : n \in 0..MaxActions }

ActionsInit ==
    /\ memory = NewMemory
    /\ last = NoCall
    /\ RestIdle

\* the loop of one turn on the plan's memory_actions
ActionsTurn ==
    /\ \E llm_memory_actions \in ActionLists :
          /\ memory' = ApplyMemoryActions(memory, llm_memory_actions)
          /\ last' = [op |-> "memory_actions",
                      actions |-> llm_memory_actions,
                      before |-> memory,
                      raised |-> MemoryActionsRaise(llm_memory_actions)]
    /\ RestUnchanged

ActionsNext == ActionsTurn

ActionsSpec == ActionsInit /\ [][ActionsNext]_vars

\* what one well-formed entry does to the Memory it finds: a store_fact
\* stores, a set_current_scheme of a known id selects it, an
\* update_current_scheme_data with data merges it into the current scheme's
\* record, and every other entry does nothing
EffectOf(m, entry) ==
    LET is(type) == "action" \in DOMAIN entry /\ entry.action = <<type>>
    IN  IF is("store_fact")
        THEN store_fact(m, entry.key, entry.value)
        ELSE IF /\ is("set_current_scheme")
                /\ "scheme_id" \in DOMAIN entry
                /\ Known(m, entry.scheme_id)
        THEN [store_fact(m, CurrentSchemeKey, entry.scheme_id)
                 EXCEPT !.current_scheme_id = entry.scheme_id]
        ELSE IF /\ is("update_current_scheme_data")
                /\ "data" \in DOMAIN entry
                /\ get_current_scheme_id(m) # None
        THEN store_scheme_data(m, get_current_scheme_id(m), entry.data, FALSE)
        ELSE m

\* the entries' effects one after the other, each on the Memory the one
\* before it left
RECURSIVE InListOrder(_, _)
InListOrder(m, entries) ==
    IF entries = <<>> THEN m
    ELSE InListOrder(EffectOf(m, Head(entries)), Tail(entries))

AllDicts(entries) == \A i \in 1..Len(entries) : IsDict(entries[i])

\* C16: the memory_actions of a plan are applied in list order, each on the
\* Memory the one before it left; a set_current_scheme with a missing or
\* unknown scheme_id, an update_current_scheme_data with missing data or no
\* current scheme and an entry of unknown type change nothing, do not end
\* the turn and do not stop the entries after them
C16_MemoryActionsInOrder ==
    (last.op = "memory_actions" /\ AllDicts(last.actions)) =>
        /\ ~last.raised
        /\ memory = InListOrder(last.before, last.actions)
        /\ \A i \in 1..Len(last.actions) :
              LET found == InListOrder(last.before, SubSeq(last.actions, 1, i - 1))
                  left  == InListOrder(last.before, SubSeq(last.actions, 1, i))
              IN  (\/ last.actions[i] \in {SetSchemeMissingId, UpdateMissingData, Frobnicate}
                   \/ last.actions[i] = SetScheme3
                   \/ last.actions[i] = SetScheme1 /\ ~Known(found, <<"scheme_1">>)
                   \/ last.actions[i] = UpdateName /\ get_current_scheme_id(found) = None)
                  => left = found
        /\ (last.actions = <<StoreSummary1, SetScheme1>>
               => memory.current_scheme_id = <<"scheme_1">>)
        /\ (last.actions = <<SetScheme1, StoreSummary1>> /\ ~Known(last.before, <<"scheme_1">>)
               => memory.current_scheme_id = last.before.current_scheme_id)

\* C16 witness: in the first turn a set_current_scheme of a scheme not yet
\* known and an entry of unknown type were followed by the store of the
\* scheme's summary, which took effect while the pointer stayed unset
C16_Witness ==
    /\ last.op = "memory_actions"
    /\ last.actions = <<SetScheme1, Frobnicate, StoreSummary1>>
    /\ last.before = NewMemory
    /\ ~last.raised
    /\ memory.current_scheme_id = None
    /\ NonNullFact(memory, <<"scheme_1", "_summary">>)

-----------------------------------------------------------------------------
(* Memory.clear *)

\* C21: clear() empties the turn log, the facts and the scheme records and
\* nulls the current-scheme pointer in one step and keeps session_id; after
\* it get_current_scheme_id() and every retrieve_fact give None and
\* check_for_repeated_question gives None for every query and lookback
C21_ClearResetsAll ==
    [][last'.op = "clear" =>
          /\ memory'.conversation_history = <<>>
          /\ memory'.facts = EmptyDict
          /\ memory'.schemes_data = EmptyDict
          /\ memory'.current_scheme_id = None
          /\ memory'.session_id = memory.session_id
          /\ get_current_scheme_id(memory') = None
          /\ \A key \in MemFactKeys \cup DOMAIN memory.facts :
                retrieve_fact(memory', key) = None
          /\ \A user_query \in Queries, history_lookback \in 0..DefaultLookback :
                check_for_repeated_question(memory', user_query, history_lookback) = None
      ]_vars

\* C21 witness: clear() has just run on a Memory with a given session id
\* that had a turn, a fact, a scheme record and a current scheme
C21_Witness ==
    /\ last.op = "clear"
    /\ last.before.session_id = <<"sid">>
    /\ last.before.conversation_history # <<>>
    /\ NonNullFact(last.before, <<"scheme_1", "_summary">>)
    /\ <<"scheme_2">> \in DOMAIN last.before.schemes_data
    /\ last.before.current_scheme_id = <<"scheme_2">>
    /\ memory.session_id = <<"sid">>

-----------------------------------------------------------------------------
(* ContextSpec: a Memory filled by its own methods, and
   get_relevant_context_for_decision asked for every budget *)

ContextInit ==
    /\ memory = NewMemory
    /\ last = NoCall
    /\ RestIdle

CtxStoreFact ==
    /\ \E key \in {<<"scheme_1", "_summary">>, <<"k">>} :
          memory' = store_fact(memory, key, <<"V">>)
    /\ last' = [op |-> "store_fact"]
    /\ RestUnchanged

CtxStoreSchemeData ==
    /\ \E data \in MemSchemeData :
          memory' = store_scheme_data(memory, <<"scheme_1">>, data, TRUE)
    /\ last' = [op |-> "store_scheme_data"]
    /\ RestUnchanged

CtxSetCurrentScheme ==
    /\ memory' = set_current_scheme(memory, <<"scheme_1">>)
    /\ last' = [op |-> "set_current_scheme"]
    /\ RestUnchanged

CtxAddTurn ==
    /\ Len(memory.conversation_history) < MaxCtxTurns
    /\ \E turn \in { Turn("user", <<"q">>, None, None, None, None),
                    Turn("agent", <<"T1">>, None, None, None, <<"S1">>),
                    Turn("agent", <<"T1">>, <<"add">>, EmptyDict, <<"5">>, None) } :
          memory' = [memory EXCEPT !.conversation_history = Append(@, turn)]
    /\ last' = [op |-> "add_conversation_turn"]
    /\ RestUnchanged

\* the method reads the Memory and writes nothing, so a call right after
\* another one finds what that one found and is left out
CtxBuild ==
    /\ last.op # "get_relevant_context_for_decision"
    /\ \E max_context_str_length \in 0..MaxContextLen,
          fact_keys \in KeyOrders(memory.facts),
          scheme_keys \in KeyOrders(get_current_scheme_data(memory)) :
          last' = [op |-> "get_relevant_context_for_decision",
                   max_context_str_length |-> max_context_str_length,
                   fact_keys |-> fact_keys,
                   context |-> get_relevant_context_for_decision(
                                   memory, max_context_str_length, fact_keys, scheme_keys)]
    /\ UNCHANGED memory
    /\ RestUnchanged

ContextNext ==
    \/ CtxStoreFact
    \/ CtxStoreSchemeData
    \/ CtxSetCurrentScheme
    \/ CtxAddTurn
    \/ CtxBuild

ContextSpec == ContextInit /\ [][ContextNext]_vars

ContextBuilt == last.op = "get_relevant_context_for_decision"

\* the block is one of the parts of the returned context
Kept(block) ==
    \E i \in 1..Len(last.context.context_parts) : last.context.context_parts[i] = block

\* the facts block with a line for every fact
WholeFactsBlock ==
    FactsBlock(memory, last.fact_keys, 0, 4 * MaxContextLen + 4 * CharLen(facts_header))

\* the history block with a snippet for every turn
WholeHistoryBlock ==
    HistoryBlock(memory, 0, 4 * MaxContextLen + 4 * CharLen(history_header))

\* C22: for every Memory and every N >= 0 the string
\* get_relevant_context_for_decision(max_context_str_length=N) returns has at
\* most N characters
C22_ContextWithinBudget ==
    ContextBuilt =>
        CharLen(last.context.full_context) <= last.max_context_str_length

\* C22 witness: a context was built with a budget that made room for the
\* scheme block but not for the facts and history that the Memory holds
C22_Witness ==
    /\ ContextBuilt
    /\ last.max_context_str_length > 0
    /\ memory.facts # EmptyDict
    /\ memory.conversation_history # <<>>
    /\ Len(last.context.context_parts) = 1
    /\ Kept(last.context.scheme_block)
    /\ CharLen(last.context.full_context) + CharLen(WholeFactsBlock)
          > last.max_context_str_length

\* C23: the blocks are taken in the order scheme, facts, history, and once a
\* block was dropped or cut for the budget no later block is in the context:
\* no facts or history after a dropped scheme block, no history after a
\* dropped or cut facts block
C23_AssemblyStops ==
    ContextBuilt =>
        LET context == last.context
            schemeDropped == context.scheme_block # <<>> /\ ~Kept(context.scheme_block)
            factsCutOrDropped ==
                /\ memory.facts # EmptyDict
                /\ context.facts_block # WholeFactsBlock \/ ~Kept(context.facts_block)
        IN  /\ schemeDropped => context.context_parts = <<>>
            /\ factsCutOrDropped => ~Kept(context.history_block)

-----------------------------------------------------------------------------
(* Tool calls and the child process *)

\* caller c's invocation has had its tool call come back
ToolCallOver(f) == f.tool_calls > 0 /\ f.pc \in {"decide2", "done"}

\* C24: a tool call always returns a result whose status is 'success' or
\* 'error' and never raises, whatever the state of the child process and
\* whatever line it read
C24_ToolCallReturnsResult ==
    \A c \in Callers :
        ToolCallOver(frames[c]) =>
            /\ frames[c].path # "execute_raised"
            /\ frames[c].path # "tool_exception" =>
                  /\ frames[c].tool_output_content[1] = "{'status': '"
                  /\ frames[c].tool_output_content[2] \in {"success", "error"}

\* C36: the line a tool call reads is the response to the request that same
\* call wrote: it carries the id of the call's own request, also when calls
\* of overlapping turns are under way on the one pipe
C36_OwnResponse ==
    [][\A c \in Callers :
          (/\ frames[c].pc = "read"
           /\ frames'[c].pc # "read"
           /\ procs[tool_mcp_process].stdout # <<>>) =>
              Head(procs[tool_mcp_process].stdout).json.id = frames[c].request_id]_vars

\* the child the agent's handle names is running
HandleAlive == mcp_server_process # NoProcess /\ procs[mcp_server_process].alive

\* the children that are running
LiveChildren == {p \in 1..Len(procs) : procs[p].alive}

\* C25: start_mcp_server() while the child is alive spawns nothing and leaves
\* the handle as it is, and at no time is more than one child running
C25_StartWhileAlive ==
    [][/\ (last'.op = "start_mcp_server" /\ HandleAlive) =>
              UNCHANGED <<mcp_server_process, procs>>
       /\ Cardinality(LiveChildren) <= 1
       /\ Cardinality(LiveChildren') <= 1
      ]_vars

\* C25 witness: start_mcp_server() has just returned with the child of the
\* constructor still running and still the only child ever spawned
C25_Witness ==
    /\ last.op = "start_mcp_server"
    /\ tool_mcp_process = 1
    /\ mcp_server_process = 1
    /\ procs[1].alive
    /\ Len(procs) = 1

\* C26: stop_mcp_server() on a running child sends SIGTERM, then SIGKILL if
\* the child outlived the grace period, and clears the handle, so that the
\* agent owns no running child afterwards; with no child, or one that has
\* exited or was stopped, it sends nothing and changes nothing
C26_StopMcpServer ==
    [][last'.op = "stop_mcp_server" =>
          /\ ~HandleAlive'
          /\ IF HandleAlive
             THEN /\ mcp_server_process' = NoProcess
                  /\ ~procs'[mcp_server_process].alive
                  /\ last'.signals \in {<<"SIGTERM">>, <<"SIGTERM", "SIGKILL">>}
             ELSE /\ last'.signals = <<>>
                  /\ UNCHANGED <<mcp_server_process, procs>>
      ]_vars

\* C26 witness: stop_mcp_server() has just had to kill a child that was
\* spawned after an earlier child had exited
C26_Witness ==
    /\ last.op = "stop_mcp_server"
    /\ last.signals = <<"SIGTERM", "SIGKILL">>
    /\ Len(procs) = 2
    /\ mcp_server_process = NoProcess
    /\ LiveChildren = {}

-----------------------------------------------------------------------------
(* Decision.execute_plan_with_memory (module/decision.py): the inference
   call, the recovery of the JSON object from the response text and the
   plan returned. A response text is a sequence of pieces in which every
   backtick, brace, bracket and white-space character is a piece of its own *)

\* str.startswith / str.endswith
StartsWith(text, prefix) ==
    Len(text) >= Len(prefix) /\ SubSeq(text, 1, Len(prefix)) = prefix

EndsWith(text, suffix) ==
    Len(text) >= Len(suffix) /\ SubSeq(text, Len(text) - Len(suffix) + 1, Len(text)) = suffix

\* str.find / str.rfind of one character, as a position from 1, or 0 for -1
Find(text, char) ==
    IF \E i \in 1..Len(text) : text[i] = char
    THEN CHOOSE i \in 1..Len(text) :
            text[i] = char /\ \A j \in 1..(i - 1) : text[j] # char
    ELSE 0

RFind(text, char) ==
    IF \E i \in 1..Len(text) : text[i] = char
    THEN CHOOSE i \in 1..Len(text) :
            text[i] = char /\ \A j \in (i + 1)..Len(text) : text[j] # char
    ELSE 0

\* the backtick character
Backtick == "<backtick>"

\* the seven characters of the opening fence with its language tag
JsonFence == <<Backtick, Backtick, Backtick, "j", "s", "o", "n">>

Fence == <<Backtick, Backtick, Backtick>>

\* the fence branch that slices off all seven characters of the fence and
\* then looks for no brace
RecoverText_FenceOnly(llm_response_text) ==
    LET stripped == Strip(llm_response_text)
    IN  IF StartsWith(stripped, JsonFence)
        THEN LET opened == Strip(SubSeq(stripped, 8, Len(stripped)))
             IN  IF EndsWith(opened, Fence)
                 THEN Strip(SubSeq(opened, 1, Len(opened) - 3))
                 ELSE opened
        ELSE stripped

\* the text handed to json.loads
RecoverText(llm_response_text) ==
    LET stripped == Strip(llm_response_text)
        unfenced ==
            IF StartsWith(stripped, JsonFence)
            THEN LET opened == Strip(SubSeq(stripped, 7, Len(stripped)))
                 IN  IF EndsWith(opened, Fence)
                     THEN Strip(SubSeq(opened, 1, Len(opened) - 3))
                     ELSE opened
            ELSE stripped
        from_brace ==
            IF ~StartsWith(unfenced, <<"{">>) /\ Find(unfenced, "{") # 0
            THEN SubSeq(unfenced, Find(unfenced, "{"), Len(unfenced))
            ELSE unfenced
    IN  IF ~EndsWith(from_brace, <<"}">>) /\ RFind(from_brace, "}") # 0
        THEN SubSeq(from_brace, 1, RFind(from_brace, "}"))
        ELSE from_brace

\* the pieces of a list of texts with ", " between them
RECURSIVE JoinComma(_)
JoinComma(texts) ==
    IF texts = <<>> THEN <<>>
    ELSE IF Len(texts) = 1 THEN Head(texts)
    ELSE Head(texts) \o <<",", " ">> \o JoinComma(Tail(texts))

Quoted(text) == <<"\"">> \o text \o <<"\"">>

\* json.dumps of a response object: the text of which json.loads gives obj
JsonText(obj) ==
    LET \* json.dumps of a tool_input dict: {} or {"a": .., "b": ..}
        ToolInputText(tool_input) ==
            IF DOMAIN tool_input = {} THEN <<"{", "}">>
            ELSE <<"{", "\"a\": ", IntStr(tool_input[<<"a">>]), ",", " ",
                   "\"b\": ", IntStr(tool_input[<<"b">>]), "}">>
        \* json.dumps of a store_fact or set_current_scheme memory action
        MemoryActionText(mem_action) ==
            <<"{", "\"action\": ">> \o Quoted(mem_action.action)
                \o (IF "key" \in DOMAIN mem_action
                    THEN <<",", " ", "\"key\": ">> \o Quoted(mem_action.key)
                            \o <<",", " ", "\"value\": ">> \o Quoted(mem_action.value)
                    ELSE <<>>)
                \o (IF "scheme_id" \in DOMAIN mem_action
                    THEN <<",", " ", "\"scheme_id\": ">> \o Quoted(mem_action.scheme_id)
                    ELSE <<>>)
                \o <<"}">>
        field(name, text) == IF name \in DOMAIN obj THEN <<text>> ELSE <<>>
        null_or(value) == IF value = None THEN <<"null">> ELSE Quoted(value)
    IN  <<"{">>
        \o JoinComma(
               field("thought", IF "thought" \in DOMAIN obj
                                THEN <<"\"thought\": ">> \o null_or(obj.thought) ELSE <<>>)
            \o field("tool_name", IF "tool_name" \in DOMAIN obj
                                  THEN <<"\"tool_name\": ">> \o null_or(obj.tool_name) ELSE <<>>)
            \o field("tool_input", IF "tool_input" \in DOMAIN obj
                                   THEN <<"\"tool_input\": ">> \o ToolInputText(obj.tool_input)
                                   ELSE <<>>)
            \o field("speak", IF "speak" \in DOMAIN obj
                              THEN <<"\"speak\": ">> \o null_or(obj.speak) ELSE <<>>)
            \o field("memory_actions",
                     IF "memory_actions" \in DOMAIN obj
                     THEN <<"\"memory_actions\": ", "[">>
                            \o JoinComma([i \in 1..Len(obj.memory_actions) |->
                                             MemoryActionText(obj.memory_actions[i])])
                            \o <<"]">>
                     ELSE <<>>))
        \o <<"}">>

\* the JSON objects the LLM may send
JsonObjects ==
    { [thought |-> <<"T1">>, tool_name |-> final_answer_tool, tool_input |-> EmptyDict,
       speak |-> <<"S1">>, memory_actions |-> <<StoreSummary1, SetScheme1>>],
      [thought |-> <<"T1">>, tool_name |-> <<"add">>, tool_input |-> AddInput(2, 3),
       speak |-> <<"S1">>],
      [thought |-> <<"T1">>, speak |-> <<"S1">>, memory_actions |-> <<>>],
      [tool_name |-> None, tool_input |-> AddInput(2, 3)] }

\* JSON texts that are not objects, with the type json.loads gives
NonObjectJsonTexts ==
    { [text |-> <<"[", "1", "]">>, type |-> "list"],
      [text |-> <<"5">>, type |-> "int"],
      [text |-> <<"null">>, type |-> "NoneType"] }

\* json.loads: the object, a value that is no object, or JSONDecodeError
Loads(text) ==
    IF \E obj \in JsonObjects : JsonText(obj) = text
    THEN [kind |-> "object", value |-> CHOOSE obj \in JsonObjects : JsonText(obj) = text]
    ELSE IF \E doc \in NonObjectJsonTexts : doc.text = text
    THEN [kind |-> "other",
          type |-> (CHOOSE doc \in NonObjectJsonTexts : doc.text = text).type]
    ELSE [kind |-> "JSONDecodeError"]

\* the JSONDecodeError handler without the raw text
ParseFailurePlan_NoRaw(llm_response_text) ==
    Plan(<<"Error: Could not parse LLM response.">>,
         final_answer_tool, EmptyDict,
         <<"I'm sorry, I had trouble understanding the response format.">>, <<>>)

\* the plan of the JSONDecodeError handler
ParseFailurePlan(llm_response_text) ==
    Plan(<<"Error: Could not parse LLM response. Raw: ">> \o llm_response_text,
         final_answer_tool, EmptyDict,
         <<"I'm sorry, I had trouble understanding the response format.">>, <<>>)

\* the plan of the handler of every other exception
UnexpectedErrorPlan(error) ==
    Plan(<<"Error: An unexpected error occurred: ">> \o error,
         final_answer_tool, EmptyDict,
         <<"I'm sorry, an unexpected error occurred.">>, <<>>)

\* the plan built from the parsed object
ParsedPlan(parsed_response) ==
    Plan(Get(parsed_response, "thought", <<"No thought process provided.">>),
         Get(parsed_response, "tool_name", final_answer_tool),
         Get(parsed_response, "tool_input", EmptyDict),
         Get(parsed_response, "speak", <<"I'm not sure how to respond to that.">>),
         Get(parsed_response, "memory_actions", <<>>))

\* what generate_content does: it returns a response with a text, or raises
Responded(text) == [kind |-> "response", text |-> text]

\* execute_plan_with_memory that asks the LLM again after a parse failure
execute_plan_with_memory_Retries(llm_ok, outcome) ==
    IF ~llm_ok
    THEN [plan |-> NotInitializedPlan, generate_content_calls |-> 0, recovered |-> None]
    ELSE IF outcome.kind = "fault"
    THEN [plan |-> UnexpectedErrorPlan(outcome.error), generate_content_calls |-> 1,
          recovered |-> None]
    ELSE LET recovered == RecoverText(outcome.text)
             parsed == Loads(recovered)
         IN  [plan |-> IF parsed.kind = "object" THEN ParsedPlan(parsed.value)
                       ELSE ParseFailurePlan(recovered),
              generate_content_calls |-> IF parsed.kind = "object" THEN 1 ELSE 2,
              recovered |-> recovered]

\* execute_plan_with_memory: the plan returned, the number of calls of
\* generate_content and the text handed to json.loads; outcome is what the
\* one call of generate_content does
execute_plan_with_memory(llm_ok, outcome) ==
    LET \* str(e) of the AttributeError of parsed_response.get on a value
        \* that is no dict
        NoGetErrorText(type) == <<"'", type, "' object has no attribute 'get'">>
    IN
    IF ~llm_ok
    THEN [plan |-> NotInitializedPlan, generate_content_calls |-> 0, recovered |-> None]
    ELSE IF outcome.kind = "fault"
    THEN [plan |-> UnexpectedErrorPlan(outcome.error), generate_content_calls |-> 1,
          recovered |-> None]
    ELSE LET recovered == RecoverText(outcome.text)
             parsed == Loads(recovered)
         IN  [plan |-> IF parsed.kind = "object"
                       THEN ParsedPlan(parsed.value)
                       ELSE IF parsed.kind = "other"
                       THEN UnexpectedErrorPlan(NoGetErrorText(parsed.type))
                       ELSE ParseFailurePlan(recovered),
              generate_content_calls |-> 1,
              recovered |-> recovered]

-----------------------------------------------------------------------------
(* DecisionSpec: execute_plan_with_memory on every outcome of the inference
   call *)

LeadingProse == { <<>>, <<"Sure", ":", "\n">>, <<" ", "note", "}", " ">>, <<"{", "x", "}", " ">> }

OpeningFences == { <<>>, JsonFence \o <<"\n">>, Fence \o <<"\n">> }

ClosingFences == { <<>>, <<"\n">> \o Fence }

TrailingProse == { <<>>, <<"\n", "Done", ".", "\n">>, <<" ", "{", "see">>, <<" ", "}">> }

\* leading prose, opening fence, the object, closing fence, trailing prose
Wrapped(leading, opening, obj, closing, trailing) ==
    leading \o opening \o JsonText(obj) \o closing \o trailing

LlmOutcomes ==
    LET \* texts with one JSON object inside prose and fences
        wrapped ==
            { Wrapped(leading, opening, obj, closing, trailing) :
                  leading \in LeadingProse, opening \in OpeningFences, obj \in JsonObjects,
                  closing \in ClosingFences, trailing \in TrailingProse }
        \* texts that hold no JSON object
        other ==
            { <<"I", " ", "cannot">>, <<"[", "1", "]">>, <<"5">>, <<"null">>, <<>>,
              <<"{", "\"thought\": ", "\"", "T1", "\"">> }
        \* generate_content raising, candidates[0] raising
        faults ==
            { [kind |-> "fault", error |-> <<"500 Internal error">>],
              [kind |-> "fault", error |-> <<"list index out of range">>] }
    IN  { Responded(text) : text \in wrapped \cup other } \cup faults

DecisionInit ==
    /\ memory = NewMemory
    /\ is_session_active = FALSE
    /\ mcp_server_process = NoProcess
    /\ tool_mcp_process = NoProcess
    /\ procs = <<>>
    /\ frames = [c \in Callers |-> IdleFrame]
    /\ calls = 0
    /\ llm_initialized \in BOOLEAN
    /\ sessions = EmptyDict
    /\ tasks = <<>>
    /\ last = NoCall

\* execute_plan_with_memory with an engine that is initialized
DecideWithLlm ==
    /\ llm_initialized
    /\ \E outcome \in LlmOutcomes :
          last' = [op |-> "execute_plan_with_memory", outcome |-> outcome,
                   returned |-> execute_plan_with_memory(TRUE, outcome)]
    /\ UNCHANGED <<memory, is_session_active, mcp_server_process, tool_mcp_process,
                   procs, frames, calls, llm_initialized, sessions, tasks>>

\* execute_plan_with_memory with self.llm = None
DecideWithoutLlm ==
    /\ ~llm_initialized
    /\ last' = [op |-> "execute_plan_with_memory", outcome |-> [kind |-> "none"],
                returned |-> execute_plan_with_memory(FALSE, [kind |-> "none"])]
    /\ UNCHANGED <<memory, is_session_active, mcp_server_process, tool_mcp_process,
                   procs, frames, calls, llm_initialized, sessions, tasks>>

DecisionNext == DecideWithLlm \/ DecideWithoutLlm

DecisionSpec == DecisionInit /\ [][DecisionNext]_vars

Decided == last.op = "execute_plan_with_memory"

\* the plan has the shape of a degenerate plan with the given apology
Degenerate(plan, apology) ==
    /\ plan.tool_name = <<"final_answer">>
    /\ DOMAIN plan.tool_input = {}
    /\ plan.speak = apology
    /\ plan.memory_actions = <<>>

\* the decision failed: the call faulted, or what was recovered is no JSON
\* object
DecisionFailed ==
    \/ last.outcome.kind = "fault"
    \/ last.outcome.kind = "response" /\ Loads(last.returned.recovered).kind # "object"

\* C27: execute_plan_with_memory calls the LLM exactly once when the engine
\* is initialized, also after a fault or a parse failure, and not at all
\* when it is not, and then returns the degenerate plan: tool_name
\* 'final_answer', empty tool_input, the fixed apology, no memory_actions
C27_OneInferenceCall ==
    Decided =>
        IF llm_initialized
        THEN last.returned.generate_content_calls = 1
        ELSE /\ last.returned.generate_content_calls = 0
             /\ Degenerate(last.returned.plan,
                           <<"Sorry, I'm having trouble thinking right now.">>)

\* C27 witness: the response did not parse, and the LLM was called once
C27_Witness ==
    /\ Decided
    /\ llm_initialized
    /\ last.outcome = Responded(<<"I", " ", "cannot">>)
    /\ last.returned.generate_content_calls = 1

Without(text, char) == \A i \in 1..Len(text) : text[i] # char

\* C29: for a response made of leading prose, an opening fence, one JSON
\* object J, a closing fence and trailing prose (each but J optional), with
\* no '{' before J and no '}' after it, the recovered text is J and the
\* plan has J's fields, tool_name defaulting to 'final_answer' and
\* memory_actions to the empty list
C29_ResponseRecovery ==
    Decided =>
        \A leading \in LeadingProse, opening \in OpeningFences, obj \in JsonObjects,
           closing \in ClosingFences, trailing \in TrailingProse :
            (/\ last.outcome = Responded(Wrapped(leading, opening, obj, closing, trailing))
             /\ Without(leading \o opening, "{")
             /\ Without(closing \o trailing, "}"))
            => /\ last.returned.recovered = JsonText(obj)
               /\ \A name \in DOMAIN obj : last.returned.plan[name] = obj[name]
               /\ "tool_name" \notin DOMAIN obj =>
                      last.returned.plan.tool_name = <<"final_answer">>
               /\ "memory_actions" \notin DOMAIN obj =>
                      last.returned.plan.memory_actions = <<>>

\* C29 witness: an object with a nested object and no memory_actions came
\* fenced, with prose before and after it that holds a brace of the other
\* kind, and was recovered
C29_Witness ==
    /\ Decided
    /\ \E obj \in JsonObjects :
          /\ "memory_actions" \notin DOMAIN obj
          /\ "tool_name" \in DOMAIN obj /\ obj.tool_name = <<"add">>
          /\ last.outcome = Responded(Wrapped(<<" ", "note", "}", " ">>, Fence \o <<"\n">>, obj,
                                              <<"\n">> \o Fence, <<" ", "{", "see">>))
          /\ last.returned.plan.tool_name = <<"add">>
          /\ last.returned.plan.memory_actions = <<>>

-----------------------------------------------------------------------------
(* ChildSpec: the child process (mcp-server.py) on its own, fed request
   lines through its stdin *)

ChildInit ==
    /\ procs = <<NewProcess>>
    /\ mcp_server_process = 1
    /\ tool_mcp_process = 1
    /\ memory = NewMemory
    /\ is_session_active = FALSE
    /\ frames = [c \in Callers |-> IdleFrame]
    /\ calls = 0
    /\ llm_initialized = TRUE
    /\ sessions = EmptyDict
    /\ tasks = <<>>
    /\ last = NoCall

\* stdin has been closed by the client
StdinClosed == procs[1].stdin # <<>> /\ procs[1].stdin[Len(procs[1].stdin)] = EofLine

\* the client writes one line; calls counts the lines
ClientWrites ==
    /\ calls < MaxLines
    /\ ~StdinClosed
    /\ LET request_id == calls + 1
           \* the lines a client may write
           lines ==
               { JsonRpcRequest(<<"add">>, AddInput(2, 3), request_id),
                 JsonRpcRequest(<<"add">>, Put(EmptyDict, <<"a">>, 2), request_id),  \* no "b"
                 JsonRpcRequest(<<"ai_form_schemer">>, AddInput(2, 3), request_id),
                 RawLine(<<"not", " ", "json">>),
                 RawLine(<<" ">>),
                 [bytes |-> <<"0xFF">>] }  \* a line that is not UTF-8
       IN  \E line \in lines :
              procs' = [procs EXCEPT ![1].stdin = Append(@, line)]
    /\ calls' = calls + 1
    /\ last' = NoCall
    /\ UNCHANGED <<memory, is_session_active, mcp_server_process, tool_mcp_process,
                   frames, llm_initialized, sessions, tasks>>

\* the client closes the child's stdin
ClientCloses ==
    /\ ~StdinClosed
    /\ procs' = [procs EXCEPT ![1].stdin = Append(@, EofLine)]
    /\ last' = NoCall
    /\ UNCHANGED <<memory, is_session_active, mcp_server_process, tool_mcp_process,
                   frames, calls, llm_initialized, sessions, tasks>>

\* one round of the loop of main: readline, then break at end of file,
\* nothing for a blank line, process_request for any other line; decode()
\* raising UnicodeDecodeError leaves main and ends the process
ChildReadsLine ==
    /\ procs[1].alive
    /\ procs[1].stdin # <<>>
    /\ LET line == Head(procs[1].stdin)
       IN  IF line = EofLine
           THEN /\ procs' = [procs EXCEPT ![1].alive = FALSE, ![1].stdin = <<>>]
                /\ last' = [op |-> "exit"]
           ELSE IF "bytes" \in DOMAIN line
           THEN /\ procs' = [procs EXCEPT ![1].alive = FALSE, ![1].stdin = <<>>]
                /\ last' = [op |-> "UnicodeDecodeError"]
           ELSE IF "raw" \in DOMAIN line /\ Strip(line.raw) = <<>>  \* line_str is empty
           THEN /\ procs' = [procs EXCEPT ![1].stdin = Tail(@)]
                /\ last' = [op |-> "blank"]
           ELSE /\ procs' = [procs EXCEPT ![1].stdin = Tail(@),
                                          ![1].stdout = Append(@, process_request(line))]
                /\ last' = [op |-> "process_request", request |-> line,
                            response |-> process_request(line)]
    /\ UNCHANGED <<memory, is_session_active, mcp_server_process, tool_mcp_process,
                   frames, calls, llm_initialized, sessions, tasks>>

ChildNext == ClientWrites \/ ClientCloses \/ ChildReadsLine

ChildSpec == ChildInit /\ [][ChildNext]_vars

\* C30: every response line the child writes, result or error, carries the
\* id of the request line it answers
C30_ResponseCarriesId ==
    (last.op = "process_request" /\ "json" \in DOMAIN last.request) =>
        last.response.json.id = last.request.json.id

\* C35: the child writes one response line for each non-blank request line
\* it reads, behind the lines already written, whether the line parses or
\* not; it writes nothing for a blank line and nothing at any other time
C35_OneResponsePerLine ==
    [][LET line == Head(procs[1].stdin)
           stdout == procs[1].stdout
           read == Len(procs'[1].stdin) < Len(procs[1].stdin)
           blank == "raw" \in DOMAIN line /\ Strip(line.raw) = <<>>
       IN  IF read /\ line # EofLine /\ ~blank
           THEN /\ Len(procs'[1].stdout) = Len(stdout) + 1
                /\ IsPrefix(stdout, procs'[1].stdout)
           ELSE procs'[1].stdout = stdout]_vars

-----------------------------------------------------------------------------
(* The turn log across the operations of the agent *)

\* the step about to be taken runs Memory.clear(): start_session(), called
\* directly or by process_user_query when no session is active
ClearingStep ==
    \/ last'.op = "start_session"
    \/ last'.op = "process_user_query" /\ ~is_session_active

\* C31: the turn log is append-only: apart from the clear() of start_session,
\* no operation of the agent removes, reorders or changes a logged turn; the
\* log before the step is a prefix of the log after it
C31_AppendOnly ==
    [][ClearingStep \/ IsPrefix(memory.conversation_history,
                                memory'.conversation_history)]_vars

\* C31 witness: a resumed process_user_query has just logged its agent turn
\* behind four or more earlier turns
C31_Witness ==
    /\ last.op = "resume"
    /\ last.returned
    /\ Len(History) >= 5

\* caller c's process_user_query has just returned a value (it was not left
\* by an exception)
ReturnedValue(c) == JustReturned(c) /\ frames[c].path # "raised"

\* C32: process_user_query called while no session is active first starts
\* one and then processes the query: when it returns, the turn log is the
\* greeting, the user turn and one agent turn, and the session is active
\* unless the query was a termination phrase
C32_ImplicitStart ==
    \A c \in Callers :
        (ReturnedValue(c) /\ frames[c].implicit_start) =>
            /\ Len(History) = 3
            /\ History[1] = GreetingTurn
            /\ History[2] = UserTurn(frames[c].user_query)
            /\ History[3].role = "agent"
            /\ is_session_active = (Normalize(frames[c].user_query) \notin TerminationPhrases)

\* C32 and C33 are about calls made one after the other; C5 lets them overlap

\* the log holds a closing turn that end_session() logged when called
\* directly: the turn before it is not a user turn with a termination phrase
DirectEnd(h) ==
    \E i \in 1..Len(h) :
        /\ h[i] = ClosingTurn
        /\ \/ i = 1
           \/ h[i - 1].role # "user"
           \/ Normalize(h[i - 1].content) \notin TerminationPhrases

\* greeting, then user and agent turns in alternation
Alternating(h) ==
    /\ Len(h) % 2 = 1
    /\ h[1] = GreetingTurn
    /\ \A i \in 2..Len(h) : h[i].role = (IF i % 2 = 0 THEN "user" ELSE "agent")

\* C33: every process_user_query appends one user turn followed by one agent
\* turn, so between turns the log of a session driven by start_session and
\* process_user_query alone is the greeting followed by user and agent turns
\* in alternation, of odd length
C33_TurnLogForm ==
    (InProgress = {} /\ History # <<>> /\ ~DirectEnd(History)) => Alternating(History)

-----------------------------------------------------------------------------
(* TurnsSpec: one caller asking one question after the other; each
   process_user_query runs to its return before the next is called, and the
   decision engine answers with the sentinel or with a plan whose
   memory_actions make the call raise *)

TurnsInit ==
    /\ memory = NewMemory
    /\ is_session_active = FALSE
    /\ mcp_server_process = NoProcess
    /\ tool_mcp_process = NoProcess
    /\ procs = <<>>
    /\ frames = [c \in Callers |-> IdleFrame]
    /\ calls = 0
    /\ llm_initialized = TRUE
    /\ sessions = EmptyDict
    /\ tasks = <<>>
    /\ last = NoCall

\* await agent.process_user_query(user_query), from the call to its return
WholeTurn ==
    /\ calls < MaxTurns
    /\ \E user_query \in {<<"q">>, <<" ", "Q">>, <<"r">>},
          plan \in { Plan(<<"T1">>, final_answer_tool, EmptyDict, <<"S1">>, <<>>),
                     Plan(<<"T1">>, final_answer_tool, EmptyDict, <<"S1">>,
                          <<JsonString(<<"note">>)>>) } :
          LET b == BeginQuery(memory, is_session_active, user_query, tool_mcp_process,
                              llm_initialized, calls + 1)
              r == IF b.frame.pc = "decide1"
                   THEN AfterInitialPlan(b.memory, b.frame, plan, tool_mcp_process)
                   ELSE b
          IN  /\ memory' = r.memory
              /\ is_session_active' = b.active
              /\ frames' = [frames EXCEPT ![1] = r.frame]
              /\ last' = StepEvent("process_user_query", 1, r.frame)
    /\ calls' = calls + 1
    /\ UNCHANGED <<mcp_server_process, tool_mcp_process, procs, llm_initialized, sessions, tasks>>

TurnsSpec == TurnsInit /\ [][WholeTurn]_vars

\* one of the four user turns before the current one, the last user turn of
\* log h, asks q again and has an agent turn with a final_answer right behind
AnsweredInWindow(h, q) ==
    \E i \in UserTurns(h) :
        /\ Rank(h, i) \in 2..DefaultLookback
        /\ Normalize(h[i].content) = Normalize(q)
        /\ HasFinalAnswer(h, i + 1)

\* C34: process_user_query logs the user turn before the repeat check, so the
\* current turn takes one of the five places of the lookback: the question is
\* answered from memory exactly if one of the four user turns before it has
\* the same normalized text and is directly followed by an agent turn with a
\* final_answer; asked five or more user turns earlier, it goes to the
\* decision engine again
C34_RepeatWindow ==
    \A c \in Callers :
        (Called(c) /\ Normalize(frames[c].user_query) \notin TerminationPhrases) =>
            ((frames[c].path = "repeat") <=> AnsweredInWindow(History, frames[c].user_query))

\* C34 witness: the question was asked and answered five user turns ago, and
\* not since, and has just gone to the decision engine again
C34_Witness ==
    /\ Called(1)
    /\ frames[1].path = "final_answer"
    /\ \E i \in UserTurns(History) :
          /\ Rank(History, i) = DefaultLookback + 1
          /\ Normalize(History[i].content) = Normalize(frames[1].user_query)
          /\ HasFinalAnswer(History, i + 1)

-----------------------------------------------------------------------------
(* HttpSpec: the session store of chat_agent/api_server.py, its background  *)
(* tasks and their callback handlers. AgentExecutor.invoke is the sequence  *)
(* of callbacks it fires; it is built without return_intermediate_steps, so *)
(* its response has no "intermediate_steps".                                *)

HttpInit ==
    /\ memory = NewMemory
    /\ last = NoCall
    /\ RestIdle

HttpUnchanged ==
    UNCHANGED <<memory, is_session_active, mcp_server_process, tool_mcp_process,
                procs, frames, calls, llm_initialized>>

\* POST /sessions
create_new_session ==
    /\ Cardinality(DOMAIN sessions) < MaxSessions
    /\ LET \* str(uuid.uuid4()): the ids in the order of their creation
           session_id == <<"sid-", Cardinality(DOMAIN sessions) + 1>>
       IN  sessions' = Put(sessions, session_id,
                           [status |-> "new", results |-> EmptyDict, final_answer |-> None,
                            schemes |-> <<>>, error |-> None, chat_history |-> <<>>,
                            first_query |-> <<"(New Chat)">>])
    /\ last' = [op |-> "create_new_session"]
    /\ UNCHANGED tasks
    /\ HttpUnchanged

\* POST /query
create_query ==
    /\ Len(tasks) < MaxTasks
    /\ \E session_id \in DOMAIN sessions \cup {<<"unknown">>, None},
          query \in {<<"q">>, <<>>} :
          IF session_id \in DOMAIN sessions
          THEN LET session_data == sessions[session_id]
                   titled == IF session_data.status = "new" /\ session_data.chat_history = <<>>
                             THEN [session_data EXCEPT !.first_query = query]
                             ELSE session_data
               IN  /\ sessions' = Put(sessions, session_id,
                                      [titled EXCEPT !.status = "running",
                                                     !.results = EmptyDict,
                                                     !.final_answer = None,
                                                     !.error = None])
                   /\ tasks' = Append(tasks, [session_id |-> session_id, query |-> query,
                                              pc |-> "queued", raw_history |-> <<>>,
                                              output |-> None,
                                              handler |-> [session_data |-> EmptyDict,
                                                           query |-> <<>>,
                                                           current_tool_step |-> 0]])
                   /\ last' = [op |-> "create_query", status_code |-> 200]
          ELSE /\ last' = [op |-> "create_query", status_code |-> 400]
               /\ UNCHANGED <<sessions, tasks>>
    /\ HttpUnchanged

\* run_agent_in_background up to the call of invoke: the stored history is
\* read and SessionCallbackHandler(sessions, session_id) takes its copy
RunStarts(t) ==
    /\ tasks[t].pc = "queued"
    /\ LET session_data == sessions[tasks[t].session_id]
       IN  tasks' = [tasks EXCEPT ![t].pc = "invoking",
                                  ![t].raw_history = session_data.chat_history,
                                  ![t].handler =
                                      [session_data |-> session_data,
                                       query |-> <<>>,
                                       current_tool_step |->
                                           Cardinality(DOMAIN session_data.results)]]
    /\ last' = [op |-> "run_agent_in_background", task |-> t]
    /\ UNCHANGED sessions
    /\ HttpUnchanged

on_chain_start(t) ==
    /\ tasks[t].pc = "invoking"
    /\ tasks' = [tasks EXCEPT ![t].pc = "agent", ![t].handler.query = tasks[t].query]
    /\ last' = [op |-> "on_chain_start", task |-> t]
    /\ UNCHANGED sessions
    /\ HttpUnchanged

on_agent_action(t) ==
    /\ tasks[t].pc = "agent"
    /\ tasks[t].handler.current_tool_step < MaxToolSteps
    /\ LET h == tasks[t].handler
           session_data == [h.session_data EXCEPT !.results =
                               Put(@, <<"tool_", h.current_tool_step>>,
                                   [tool |-> <<"add">>, result |-> <<"Executing...">>,
                                    status |-> "Running"])]
       IN  /\ tasks' = [tasks EXCEPT ![t].pc = "tool", ![t].handler.session_data = session_data]
           /\ sessions' = Put(sessions, tasks[t].session_id, session_data)
    /\ last' = [op |-> "on_agent_action", task |-> t]
    /\ HttpUnchanged

\* on_tool_end with an output that holds no SCHEME_DATA block
on_tool_end(t) ==
    /\ tasks[t].pc = "tool"
    /\ LET h == tasks[t].handler
           step_key == <<"tool_", h.current_tool_step>>
           session_data == [h.session_data EXCEPT !.results =
                               Put(@, step_key, [h.session_data.results[step_key] EXCEPT !.result = <<"5">>,
                                                                    !.status = "Finished"])]
       IN  IF step_key \in DOMAIN h.session_data.results
           THEN /\ tasks' = [tasks EXCEPT ![t].pc = "agent",
                                          ![t].handler.session_data = session_data,
                                          ![t].handler.current_tool_step = @ + 1]
                /\ sessions' = Put(sessions, tasks[t].session_id, session_data)
           ELSE /\ tasks' = [tasks EXCEPT ![t].pc = "agent",
                                          ![t].handler.current_tool_step = @ + 1]
                /\ UNCHANGED sessions
    /\ last' = [op |-> "on_tool_end", task |-> t]
    /\ HttpUnchanged

\* the exchange appended to a chat_history
Exchange(query, answer) ==
    <<[type |-> "human", content |-> query], [type |-> "ai", content |-> answer]>>

on_agent_finish(t) ==
    /\ tasks[t].pc = "agent"
    /\ \E final_answer \in {<<"A">>, <<"A", " ", "PRODUCT_DATA:", " {p}">>} :
          LET h == tasks[t].handler
              finished == [h.session_data EXCEPT !.final_answer = final_answer,
                                                 !.status = "completed"]
              session_data == IF h.query # <<>>
                              THEN [finished EXCEPT !.chat_history =
                                       @ \o Exchange(h.query, final_answer)]
                              ELSE finished
          IN  /\ tasks' = [tasks EXCEPT ![t].pc = "finished", ![t].output = final_answer,
                                        ![t].handler.session_data = session_data]
              /\ sessions' = Put(sessions, tasks[t].session_id, session_data)
    /\ last' = [op |-> "on_agent_finish", task |-> t]
    /\ HttpUnchanged

\* run_agent_in_background from the return of invoke on
RunReturns(t) ==
    /\ tasks[t].pc = "finished"
    /\ LET agent_output == tasks[t].output
           session_data == sessions[tasks[t].session_id]
           blocks == {i \in DOMAIN agent_output :
                         agent_output[i] \in {"PRODUCT_DATA:", "SCHEME_DATA:"}}
           \* the text before the first data block, stripped
           ui_final_answer ==
               IF blocks = {} THEN agent_output
               ELSE Strip(SubSeq(agent_output, 1,
                                 (CHOOSE i \in blocks : \A j \in blocks : i <= j) - 1))
       IN  sessions' = Put(sessions, tasks[t].session_id,
                           [session_data EXCEPT !.final_answer = ui_final_answer,
                                                !.chat_history =
                                                    @ \o Exchange(tasks[t].query, agent_output)])
    /\ tasks' = [tasks EXCEPT ![t].pc = "done"]
    /\ last' = [op |-> "run_agent_in_background", task |-> t]
    /\ HttpUnchanged

\* invoke raises: the except branch of run_agent_in_background
RunFails(t) ==
    /\ tasks[t].pc \in {"invoking", "agent", "tool"}
    /\ sessions' = Put(sessions, tasks[t].session_id,
                       [sessions[tasks[t].session_id] EXCEPT !.status = "error",
                                                             !.error = <<"str(e)">>])
    /\ tasks' = [tasks EXCEPT ![t].pc = "failed"]
    /\ last' = [op |-> "run_agent_in_background", task |-> t]
    /\ HttpUnchanged

HttpNext ==
    \/ create_new_session
    \/ create_query
    \/ \E t \in DOMAIN tasks : RunStarts(t)
    \/ \E t \in DOMAIN tasks : on_chain_start(t)
    \/ \E t \in DOMAIN tasks : on_agent_action(t)
    \/ \E t \in DOMAIN tasks : on_tool_end(t)
    \/ \E t \in DOMAIN tasks : on_agent_finish(t)
    \/ \E t \in DOMAIN tasks : RunReturns(t)
    \/ \E t \in DOMAIN tasks : RunFails(t)

HttpSpec == HttpInit /\ [][HttpNext]_vars

\* C39: each agent run that completes without error (chain start and agent
\* finish fired, then run_agent_in_background finishes) grows the persisted
\* chat_history of its session by exactly one human and one ai message for
\* its query, and leaves the session status "completed".
C39_OneExchangePerRun ==
    [][\A t \in DOMAIN tasks :
          (tasks[t].pc = "finished" /\ tasks'[t].pc = "done") =>
              LET session_data == sessions'[tasks[t].session_id]
              IN  /\ session_data.status = "completed"
                  /\ session_data.chat_history =
                         tasks[t].raw_history \o Exchange(tasks[t].query, tasks[t].output)]_vars

=============================================================================
